---- MODULE Spec2Model ----
(***************************************************************************)
(* Model of the public-folder resolution pipeline of drive-scraper-backend *)
(* (src/src/publicScrapeService.ts).                                       *)
(*                                                                         *)
(* Text is modelled as sequences of one-character strings.  A page markup  *)
(* is a record whose `body` is a sequence of lexical tokens (an opening    *)
(* marker, a closing marker, a data-id attribute with its value, one       *)
(* character of other text), each with the length it has in the real       *)
(* markup, and whose `ivd` is the content of the window['_DRIVE_ivd']      *)
(* assignment, if the page has one.                                        *)
(***************************************************************************)
EXTENDS Integers, Sequences, FiniteSets, TLC

\* ------------------------------------------------------------------------
\* Text helpers (String.prototype methods used by the source)
\* ------------------------------------------------------------------------

LowerOf ==
  [A |-> "a", B |-> "b", C |-> "c", D |-> "d", E |-> "e", F |-> "f", G |-> "g",
   H |-> "h", I |-> "i", J |-> "j", K |-> "k", L |-> "l", M |-> "m", N |-> "n",
   O |-> "o", P |-> "p", Q |-> "q", R |-> "r", S |-> "s", T |-> "t", U |-> "u",
   V |-> "v", W |-> "w", X |-> "x", Y |-> "y", Z |-> "z"]

toLowerCase(s) ==
  [k \in 1..Len(s) |-> IF s[k] \in DOMAIN LowerOf THEN LowerOf[s[k]] ELSE s[k]]

endsWith(s, suffix) ==
  /\ Len(s) >= Len(suffix)
  /\ SubSeq(s, Len(s) - Len(suffix) + 1, Len(s)) = suffix

RECURSIVE trimEnd(_)
trimEnd(s) ==
  IF s # <<>> /\ s[Len(s)] = " " THEN trimEnd(SubSeq(s, 1, Len(s) - 1)) ELSE s

RECURSIVE trimStart(_)
trimStart(s) ==
  IF s # <<>> /\ s[1] = " " THEN trimStart(Tail(s)) ELSE s

trim(s) == trimEnd(trimStart(s))

\* s.indexOf(","), 0-based, -1 when absent
indexOfComma(s) ==
  IF \E k \in 1..Len(s) : s[k] = ","
  THEN (CHOOSE k \in 1..Len(s) : s[k] = "," /\ \A m \in 1..(k - 1) : s[m] # ",") - 1
  ELSE -1

\* Array.from(new Set(arr)): first occurrences, in order
RECURSIVE uniqueArray(_)
uniqueArray(arr) ==
  IF arr = <<>> THEN <<>>
  ELSE LET init == uniqueArray(SubSeq(arr, 1, Len(arr) - 1))
           last == arr[Len(arr)]
       IN IF \E k \in 1..Len(init) : init[k] = last THEN init ELSE Append(init, last)

\* ------------------------------------------------------------------------
\* Constants of the source
\* ------------------------------------------------------------------------

FOLDER_MIME_TYPE == "application/vnd.google-apps.folder"

DEFAULT_MIME_TYPE == "application/octet-stream"

MinIdLength == 20

IdChars ==
  {"a", "b", "c", "d", "e", "f", "g", "h", "i", "j", "k", "l", "m", "n", "o",
   "p", "q", "r", "s", "t", "u", "v", "w", "x", "y", "z",
   "A", "B", "C", "D", "E", "F", "G", "H", "I", "J", "K", "L", "M", "N", "O",
   "P", "Q", "R", "S", "T", "U", "V", "W", "X", "Y", "Z",
   "0", "1", "2", "3", "4", "5", "6", "7", "8", "9", "_", "-"}

MarkerLength == 14

EndMarkerLength == 15

DataIdOverhead == 10

MimeTable ==
  << <<<<".", "m", "p", "4">>, "video/mp4">>,
     <<<<".", "a", "v", "i">>, "video/x-msvideo">>,
     <<<<".", "m", "o", "v">>, "video/quicktime">>,
     <<<<".", "w", "m", "v">>, "video/x-ms-wmv">>,
     <<<<".", "f", "l", "v">>, "video/x-flv">>,
     <<<<".", "w", "e", "b", "m">>, "video/webm">>,
     <<<<".", "m", "k", "v">>, "video/x-matroska">>,
     <<<<".", "m", "4", "v">>, "video/x-m4v">>,
     <<<<".", "3", "g", "p">>, "video/3gpp">>,
     <<<<".", "m", "p", "3">>, "audio/mpeg">>,
     <<<<".", "w", "a", "v">>, "audio/wav">>,
     <<<<".", "o", "g", "g">>, "audio/ogg">>,
     <<<<".", "f", "l", "a", "c">>, "audio/flac">>,
     <<<<".", "a", "a", "c">>, "audio/aac">>,
     <<<<".", "m", "4", "a">>, "audio/mp4">>,
     <<<<".", "w", "m", "a">>, "audio/x-ms-wma">>,
     <<<<".", "p", "n", "g">>, "image/png">>,
     <<<<".", "j", "p", "g">>, "image/jpeg">>,
     <<<<".", "j", "p", "e", "g">>, "image/jpeg">>,
     <<<<".", "g", "i", "f">>, "image/gif">>,
     <<<<".", "b", "m", "p">>, "image/bmp">>,
     <<<<".", "s", "v", "g">>, "image/svg+xml">>,
     <<<<".", "w", "e", "b", "p">>, "image/webp">>,
     <<<<".", "i", "c", "o">>, "image/x-icon">>,
     <<<<".", "t", "i", "f", "f">>, "image/tiff">>,
     <<<<".", "t", "i", "f">>, "image/tiff">>,
     <<<<".", "p", "d", "f">>, "application/pdf">>,
     <<<<".", "d", "o", "c">>, "application/msword">>,
     <<<<".", "d", "o", "c", "x">>, "application/vnd.openxmlformats-officedocument.wordprocessingml.document">>,
     <<<<".", "x", "l", "s">>, "application/vnd.ms-excel">>,
     <<<<".", "x", "l", "s", "x">>, "application/vnd.openxmlformats-officedocument.spreadsheetml.sheet">>,
     <<<<".", "p", "p", "t">>, "application/vnd.ms-powerpoint">>,
     <<<<".", "p", "p", "t", "x">>, "application/vnd.openxmlformats-officedocument.presentationml.presentation">>,
     <<<<".", "t", "x", "t">>, "text/plain">>,
     <<<<".", "r", "t", "f">>, "application/rtf">>,
     <<<<".", "c", "s", "v">>, "text/csv">>,
     <<<<".", "z", "i", "p">>, "application/zip">>,
     <<<<".", "r", "a", "r">>, "application/vnd.rar">>,
     <<<<".", "7", "z">>, "application/x-7z-compressed">>,
     <<<<".", "t", "a", "r">>, "application/x-tar">>,
     <<<<".", "g", "z">>, "application/gzip">>,
     <<<<".", "j", "s", "o", "n">>, "application/json">>,
     <<<<".", "x", "m", "l">>, "application/xml">>,
     <<<<".", "h", "t", "m", "l">>, "text/html">>,
     <<<<".", "h", "t", "m">>, "text/html">>,
     <<<<".", "c", "s", "s">>, "text/css">>,
     <<<<".", "j", "s">>, "application/javascript">>,
     <<<<".", "t", "s">>, "application/typescript">>,
     <<<<".", "p", "y">>, "text/x-python">>,
     <<<<".", "j", "a", "v", "a">>, "text/x-java-source">>,
     <<<<".", "c">>, "text/x-c">>,
     <<<<".", "c", "p", "p">>, "text/x-c">>,
     <<<<".", "h">>, "text/x-c">> >>

fileExtensions ==
  << <<".", "m", "p", "4">>,
     <<".", "a", "v", "i">>,
     <<".", "m", "o", "v">>,
     <<".", "w", "m", "v">>,
     <<".", "f", "l", "v">>,
     <<".", "w", "e", "b", "m">>,
     <<".", "m", "k", "v">>,
     <<".", "m", "4", "v">>,
     <<".", "3", "g", "p">>,
     <<".", "m", "p", "e", "g">>,
     <<".", "m", "p", "g">>,
     <<".", "m", "p", "3">>,
     <<".", "w", "a", "v">>,
     <<".", "o", "g", "g">>,
     <<".", "f", "l", "a", "c">>,
     <<".", "a", "a", "c">>,
     <<".", "m", "4", "a">>,
     <<".", "w", "m", "a">>,
     <<".", "p", "n", "g">>,
     <<".", "j", "p", "g">>,
     <<".", "j", "p", "e", "g">>,
     <<".", "g", "i", "f">>,
     <<".", "b", "m", "p">>,
     <<".", "s", "v", "g">>,
     <<".", "w", "e", "b", "p">>,
     <<".", "i", "c", "o">>,
     <<".", "t", "i", "f", "f">>,
     <<".", "t", "i", "f">>,
     <<".", "r", "a", "w">>,
     <<".", "p", "d", "f">>,
     <<".", "d", "o", "c">>,
     <<".", "d", "o", "c", "x">>,
     <<".", "x", "l", "s">>,
     <<".", "x", "l", "s", "x">>,
     <<".", "p", "p", "t">>,
     <<".", "p", "p", "t", "x">>,
     <<".", "t", "x", "t">>,
     <<".", "r", "t", "f">>,
     <<".", "c", "s", "v">>,
     <<".", "o", "d", "t">>,
     <<".", "o", "d", "s">>,
     <<".", "o", "d", "p">>,
     <<".", "z", "i", "p">>,
     <<".", "r", "a", "r">>,
     <<".", "7", "z">>,
     <<".", "t", "a", "r">>,
     <<".", "g", "z">>,
     <<".", "b", "z", "2">>,
     <<".", "x", "z">>,
     <<".", "j", "s", "o", "n">>,
     <<".", "x", "m", "l">>,
     <<".", "h", "t", "m", "l">>,
     <<".", "h", "t", "m">>,
     <<".", "c", "s", "s">>,
     <<".", "j", "s">>,
     <<".", "t", "s">>,
     <<".", "p", "y">>,
     <<".", "j", "a", "v", "a">>,
     <<".", "c">>,
     <<".", "c", "p", "p">>,
     <<".", "h">>,
     <<".", "r", "b">>,
     <<".", "g", "o">>,
     <<".", "r", "s">>,
     <<".", "p", "h", "p">>,
     <<".", "s", "q", "l">>,
     <<".", "e", "x", "e">>,
     <<".", "m", "s", "i">>,
     <<".", "d", "m", "g">>,
     <<".", "i", "s", "o">>,
     <<".", "a", "p", "k">>,
     <<".", "i", "p", "a">>,
     <<".", "d", "e", "b">>,
     <<".", "r", "p", "m">>,
     <<".", "e", "p", "u", "b">>,
     <<".", "m", "o", "b", "i">>,
     <<".", "a", "z", "w">>,
     <<".", "d", "j", "v", "u">>,
     <<".", "p", "s", "d">>,
     <<".", "a", "i">>,
     <<".", "s", "k", "e", "t", "c", "h">>,
     <<".", "f", "i", "g">>,
     <<".", "s", "r", "t">>,
     <<".", "v", "t", "t">>,
     <<".", "a", "s", "s">>,
     <<".", "t", "o", "r", "r", "e", "n", "t">>,
     <<".", "n", "f", "o">> >>

\* ------------------------------------------------------------------------
\* inferMimeTypeFromName / hasFileExtension
\* ------------------------------------------------------------------------

inferMimeTypeFromName(name) ==
  LET lower == toLowerCase(name)
      hits  == {k \in 1..Len(MimeTable) : endsWith(lower, MimeTable[k][1])}
  IN IF hits = {} THEN DEFAULT_MIME_TYPE
     ELSE MimeTable[CHOOSE k \in hits : \A m \in hits : k <= m][2]

\* Faulty variant: the name is not lower-cased before the comparison
hasFileExtensionCaseSensitive(name) ==
  \E k \in 1..Len(fileExtensions) : endsWith(name, fileExtensions[k])

hasFileExtension(name) ==
  LET lower == toLowerCase(name)
  IN \E k \in 1..Len(fileExtensions) : endsWith(lower, fileExtensions[k])

\* ------------------------------------------------------------------------
\* Markup tokens and offsets
\* ------------------------------------------------------------------------

MarkerTok == [t |-> "marker", v |-> <<>>]

EndTok == [t |-> "end", v |-> <<>>]

TextTok == [t |-> "text", v |-> <<>>]

DataIdTok(value) == [t |-> "dataId", v |-> value]

tokenLength(tok) ==
  CASE tok.t = "marker" -> MarkerLength
    [] tok.t = "end"    -> EndMarkerLength
    [] tok.t = "dataId" -> DataIdOverhead + Len(tok.v)
    [] OTHER            -> 1

RECURSIVE textLength(_)
textLength(toks) ==
  IF toks = <<>> THEN 0 ELSE tokenLength(Head(toks)) + textLength(Tail(toks))

offsetOf(toks, k) == textLength(SubSeq(toks, 1, k - 1))

\* html.indexOf(<marker of the given kind>, from): 0-based offset, -1 when absent
indexOf(toks, kind, from) ==
  LET hits == {k \in 1..Len(toks) : toks[k].t = kind /\ offsetOf(toks, k) >= from}
  IN IF hits = {} THEN -1
     ELSE offsetOf(toks, CHOOSE k \in hits : \A m \in hits : k <= m)

\* html.substring(start, end) for offsets on token boundaries
substring(toks, start, end) ==
  LET ks == {k \in 1..Len(toks) :
               offsetOf(toks, k) >= start /\ offsetOf(toks, k) + tokenLength(toks[k]) <= end}
  IN IF ks = {} THEN <<>>
     ELSE SubSeq(toks, CHOOSE k \in ks : \A m \in ks : k <= m,
                       CHOOSE k \in ks : \A m \in ks : k >= m)

\* ------------------------------------------------------------------------
\* extractFolderNamesFromRawResponse
\* ------------------------------------------------------------------------

VND_PREFIX == "application/vnd"

folderNameOf(matched) ==
  LET folderName == trim(matched)
      commaIndex == indexOfComma(folderName)
      beforeComma == trim(SubSeq(folderName, 1, commaIndex))
  IN IF folderName = <<>> THEN <<>>
     ELSE IF commaIndex > 0 /\ Len(beforeComma) > 0 THEN beforeComma
     ELSE folderName

extractFolderNamesFromRawResponse(rawResponse) ==
  IF rawResponse.kind # "string" \/ rawResponse.ivd = <<>> THEN {}
  ELSE LET driveIvdContent == rawResponse.ivd[1]
           matches == {k \in 1..Len(driveIvdContent) :
                         driveIvdContent[k].mime[1] = VND_PREFIX}
       IN {folderNameOf(driveIvdContent[k].name) : k \in matches} \ {<<>>}

\* ------------------------------------------------------------------------
\* parseIdsFromBlock
\* ------------------------------------------------------------------------

isIdShaped(id) ==
  /\ Len(id) >= MinIdLength
  /\ \A k \in 1..Len(id) : id[k] \in IdChars

\* Faulty variant: every data-id value is taken as an identifier
RECURSIVE parseIdsFromBlockUnfiltered(_)
parseIdsFromBlockUnfiltered(htmlBlock) ==
  IF htmlBlock = <<>> THEN <<>>
  ELSE LET tok == Head(htmlBlock)
           rest == parseIdsFromBlockUnfiltered(Tail(htmlBlock))
       IN IF tok.t = "dataId" /\ tok.v # <<>>
          THEN <<tok.v>> \o rest
          ELSE rest

RECURSIVE parseIdsFromBlock(_)
parseIdsFromBlock(htmlBlock) ==
  IF htmlBlock = <<>> THEN <<>>
  ELSE LET tok == Head(htmlBlock)
           rest == parseIdsFromBlock(Tail(htmlBlock))
       IN IF tok.t = "dataId" /\ tok.v # <<>> /\ isIdShaped(tok.v)
          THEN <<tok.v>> \o rest
          ELSE rest

\* ------------------------------------------------------------------------
\* parseTitleFromHtml
\* ------------------------------------------------------------------------

GoogleDrive == <<"g", "o", "o", "g", "l", "e", " ", "d", "r", "i", "v", "e">>

\* title.replace(/\s*-\s*Google Drive\s*$/i, "")
stripBrand(title) ==
  LET s1 == trimEnd(title)
  IN IF endsWith(toLowerCase(s1), GoogleDrive)
     THEN LET s2 == trimEnd(SubSeq(s1, 1, Len(s1) - Len(GoogleDrive)))
          IN IF endsWith(s2, <<"-">>)
             THEN trimEnd(SubSeq(s2, 1, Len(s2) - 1))
             ELSE title
     ELSE title

\* <<title>> for a parsed title, <<>> for null
parseTitleFromHtml(html) ==
  IF html.kind # "string" THEN <<>>
  ELSE LET ogTitle == IF html.og # <<>> THEN stripBrand(trim(html.og[1])) ELSE <<>>
           docTitle == IF html.title # <<>> THEN stripBrand(trim(html.title[1])) ELSE <<>>
       IN IF ogTitle # <<>> THEN <<ogTitle>>
          ELSE IF docTitle # <<>> THEN <<docTitle>>
          ELSE <<>>

\* ------------------------------------------------------------------------
\* findBigScriptBlock
\* ------------------------------------------------------------------------

RECURSIVE occurrencesFrom(_, _)
occurrencesFrom(toks, searchStart) ==
  LET idx == indexOf(toks, "marker", searchStart)
  IN IF idx = -1 THEN <<>>
     ELSE <<idx>> \o occurrencesFrom(toks, idx + MarkerLength)

RECURSIVE blockCandidates(_, _)
blockCandidates(toks, occurrences) ==
  IF occurrences = <<>> THEN <<>>
  ELSE LET startIdx == Head(occurrences)
           endIdx == indexOf(toks, "end", startIdx)
           fullEndIdx == endIdx + EndMarkerLength
           rest == blockCandidates(toks, Tail(occurrences))
       IN IF endIdx # -1
          THEN <<[startIdx |-> startIdx, endIdx |-> fullEndIdx,
                  length |-> fullEndIdx - startIdx]>> \o rest
          ELSE rest

\* Faulty variant: the first candidate is kept whatever the lengths
largestFromFirst(largest, candidates) == largest

RECURSIVE largestFrom(_, _)
largestFrom(largest, candidates) ==
  IF candidates = <<>> THEN largest
  ELSE largestFrom(IF Head(candidates).length > largest.length
                   THEN Head(candidates) ELSE largest,
                   Tail(candidates))

\* Faulty variant: a page without a marker pair is treated as one big block
findBigScriptBlockWholePage(toks) ==
  LET occurrences == occurrencesFrom(toks, 0)
      candidates == blockCandidates(toks, occurrences)
  IN IF occurrences = <<>> \/ candidates = <<>>
       THEN <<[bigScriptBlock |-> toks, bigBlockEndIndex |-> textLength(toks)]>>
     ELSE LET largest == largestFrom(candidates[1], candidates)
          IN <<[bigScriptBlock |-> substring(toks, largest.startIdx, largest.endIdx),
                bigBlockEndIndex |-> largest.endIdx]>>

\* <<[bigScriptBlock, bigBlockEndIndex]>> for a block, <<>> for null
findBigScriptBlock(toks) ==
  LET occurrences == occurrencesFrom(toks, 0)
      candidates == blockCandidates(toks, occurrences)
  IN IF occurrences = <<>> \/ candidates = <<>> THEN <<>>
     ELSE LET largest == largestFrom(candidates[1], candidates)
          IN <<[bigScriptBlock |-> substring(toks, largest.startIdx, largest.endIdx),
                bigBlockEndIndex |-> largest.endIdx]>>

\* html.slice(bigBlockEndIndex)
sliceFrom(toks, start) == substring(toks, start, textLength(toks))

\* ------------------------------------------------------------------------
\* URLs and entries (DriveFile)
\* ------------------------------------------------------------------------

folderUrlOf(id) == [shape |-> "drive/folders", id |-> id]

fileViewUrlOf(id) == [shape |-> "file/d/view", id |-> id]

downloadUrlOf(id) == [shape |-> "uc?export=download", id |-> id]

DriveFile(id, name, mimeType, viewUrl, downloadUrl) ==
  [id |-> id, name |-> name, mimeType |-> mimeType,
   viewUrl |-> viewUrl, downloadUrl |-> downloadUrl]

\* ------------------------------------------------------------------------
\* The upstream: what the folder page and the probes can answer
\* ------------------------------------------------------------------------

MaxBodyTokens == 4

Rep(c, n) == [k \in 1..n |-> c]

RootId == <<"r", "o", "o", "t", "F", "o", "l", "d", "e", "r">>

Id1 == Rep("a", MinIdLength)

Id2 == Append(Rep("B", MinIdLength), "_")

IdShort == Rep("a", MinIdLength - 1)

BodyTokens == {MarkerTok, EndTok, DataIdTok(Id1), DataIdTok(Id2), DataIdTok(IdShort)}

InBody(tok, toks) == \E k \in 1..Len(toks) : toks[k] = tok

RECURSIVE SeqsUpTo(_, _)
SeqsUpTo(S, n) ==
  IF n = 0 THEN {<<>>}
  ELSE LET shorter == SeqsUpTo(S, n - 1)
       IN shorter \cup {Append(s, x) : s \in {q \in shorter : Len(q) = n - 1}, x \in S}

NamePhotos == <<"P", "h", "o", "t", "o", "s">>

NameReport == <<"r", "e", "p", "o", "r", "t", ".", "p", "d", "f">>

NameClip == <<"C", "l", "i", "p", ".", "M", "P", "G">>

NameArchive == <<"a", "r", "c", "h", "i", "v", "e", ".", "z", "i", "p">>

NameNotes == <<"N", "o", "t", "e", "s">>

BrandSuffix == <<" ", "-", " ", "G", "o", "o", "g", "l", "e", " ", "D", "r", "i", "v", "e">>

\* content of a window['_DRIVE_ivd'] assignment: (name, media type) fields
IvdSample ==
  << [name |-> <<" ">> \o NamePhotos, mime |-> <<VND_PREFIX, ".google-apps.folder">>],
     [name |-> NameArchive \o <<",", "0", "B", "x">>,
      mime |-> <<VND_PREFIX, ".google-apps.folder">>],
     [name |-> NameReport, mime |-> <<"application/", "pdf">>] >>

IvdOptions == {<<>>, <<IvdSample>>}

StringPage(ivd, body) == [kind |-> "string", ivd |-> ivd, body |-> body]

NullData == [kind |-> "null"]

ObjectData == [kind |-> "object"]

NoData == [kind |-> "unset"]

\* the two well-formed identifiers are interchangeable: Id1 names the one met first
FirstIndexOf(tok, toks) ==
  IF InBody(tok, toks)
  THEN CHOOSE k \in 1..Len(toks) : toks[k] = tok /\ \A m \in 1..(k - 1) : toks[m] # tok
  ELSE Len(toks) + 1

Bodies ==
  {body \in SeqsUpTo(BodyTokens, MaxBodyTokens) :
     InBody(DataIdTok(Id2), body) =>
       FirstIndexOf(DataIdTok(Id1), body) < FirstIndexOf(DataIdTok(Id2), body)}

PrimaryPages ==
  {StringPage(ivd, body) : ivd \in IvdOptions, body \in Bodies} \cup {NullData, ObjectData}

PrimaryStatuses == {200, 400, 403, 404, 500}

Threw == [threw |-> TRUE, status |-> 0, data |-> NoData]

Response(status, data) == [threw |-> FALSE, status |-> status, data |-> data]

ProbePage(og, title) == [kind |-> "string", og |-> og, title |-> title]

PageNone == ProbePage(<<>>, <<>>)

PagePhotos == ProbePage(<<NamePhotos>>, <<NameNotes>>)

PageReport == ProbePage(<<>>, <<NameReport \o BrandSuffix>>)

PageClip == ProbePage(<<BrandSuffix>>, <<<<" ">> \o NameClip \o <<" ">>>>)

PageArchive == ProbePage(<<NameArchive \o BrandSuffix>>, <<>>)

FolderProbeOutcomes ==
  {Threw, Response(404, PageReport), Response(200, PageNone),
   Response(200, PagePhotos), Response(200, PageReport), Response(200, PageClip),
   Response(299, PageArchive)}

FileProbeOutcomes ==
  {Threw, Response(404, PageReport), Response(200, PageNone),
   Response(200, PagePhotos), Response(299, PageReport)}

\* ------------------------------------------------------------------------
\* State of one run of scrapePublicFolder(RootId)
\* ------------------------------------------------------------------------

VARIABLES
  upstream,                    \* what the server holds for the folder page
  pc,                          \* "fetch", "parse", "passA", "passB", "done", "failed"
  status,                      \* response.status of the primary fetch (0: none)
  html,                        \* the local html
  folderNamesFromRawResponse,  \* the membership index
  blockResult,                 \* <<>> (null) or <<[bigScriptBlock, bigBlockEndIndex]>>
  allCandidateIdsArray,
  idx,                         \* position of the running for..of loop
  validFolders,
  invalidIds,
  detectedFiles,
  fileIds,                     \* Array.from(allFileCandidateIds)
  validFiles,
  result,                      \* <<>> or <<[files, isEmptyFolder]>>
  error,                       \* "none" or the name of the error thrown to the caller
  calls,                       \* every axios.get issued so far, with its outcome
  answers,                     \* two-run specifications: the answer of every locator
  runs,                        \* two-run specifications: the locals of each run
  arg,                         \* function specifications: the input drawn
  ret                          \* function specifications: the value returned

mainVars ==
  <<upstream, pc, status, html, folderNamesFromRawResponse, blockResult,
    allCandidateIdsArray, idx, validFolders, invalidIds, detectedFiles, fileIds,
    validFiles, result, error, calls>>

sideVars == <<answers, runs, arg, ret>>

vars == <<mainVars, sideVars>>

\* the variables of the other specifications, while they are not in use
SideIdle == answers = <<>> /\ runs = <<>> /\ arg = <<>> /\ ret = <<>>

Init ==
  /\ upstream \in PrimaryPages
  /\ pc = "fetch"
  /\ status = 0
  /\ html = NoData
  /\ folderNamesFromRawResponse = {}
  /\ blockResult = <<>>
  /\ allCandidateIdsArray = <<>>
  /\ idx = 1
  /\ validFolders = <<>>
  /\ invalidIds = <<>>
  /\ detectedFiles = <<>>
  /\ fileIds = <<>>
  /\ validFiles = <<>>
  /\ result = <<>>
  /\ error = "none"
  /\ calls = <<>>
  /\ SideIdle

\* ------------------------------------------------------------------------
\* STEP 1: the primary fetch and its try/catch
\* ------------------------------------------------------------------------

\* Faulty variant: the catch rethrows whatever it caught
primaryFetchResultRethrow(response) ==
  IF response.threw
    THEN [error |-> "Error", html |-> NoData]
  ELSE IF response.status = 404
    THEN [error |-> "FolderNotFoundError", html |-> NoData]
  ELSE IF response.status >= 400
    THEN [error |-> "PublicAccessForbiddenError", html |-> NoData]
  ELSE IF response.data.kind = "null"
    THEN [error |-> "TypeError", html |-> response.data]
  ELSE [error |-> "none", html |-> response.data]

primaryFetchResult(response) ==
  IF response.threw
    THEN [error |-> "FolderNotFoundError", html |-> NoData]
  ELSE IF response.status = 404
    THEN [error |-> "FolderNotFoundError", html |-> NoData]
  ELSE IF response.status = 403
    THEN [error |-> "PublicAccessForbiddenError", html |-> NoData]
  ELSE IF response.status >= 400
    THEN [error |-> "PublicAccessForbiddenError", html |-> NoData]
  ELSE IF response.data.kind = "null"
    \* html.length on null throws a TypeError inside the try: the catch maps it
    THEN [error |-> "FolderNotFoundError", html |-> response.data]
  ELSE [error |-> "none", html |-> response.data]

\* Faulty variant: the error is recorded but the function goes on
pcAfterFetchSwallow(err) == "parse"

\* a thrown error leaves the function; otherwise execution goes on to STEP 2
pcAfterFetch(err) == IF err = "none" THEN "parse" ELSE "failed"

PrimaryFetch ==
  /\ pc = "fetch"
  /\ \E response \in {Threw} \cup {Response(s, upstream) : s \in PrimaryStatuses} :
       LET r == primaryFetchResult(response)
       IN /\ calls' = Append(calls, [url |-> folderUrlOf(RootId), pass |-> "primary",
                                     outcome |-> response])
          /\ status' = response.status
          /\ html' = r.html
          /\ error' = r.error
          /\ pc' = pcAfterFetch(r.error)
  /\ UNCHANGED sideVars
  /\ UNCHANGED <<upstream, folderNamesFromRawResponse, blockResult, allCandidateIdsArray,
                 idx, validFolders, invalidIds, detectedFiles, fileIds, validFiles, result>>

\* ------------------------------------------------------------------------
\* STEPS 2-6: membership index, block, candidates
\* ------------------------------------------------------------------------

\* Faulty variant: block and tail identifiers are merged without the final Set
candidateIdsNoDedup(blockRes, toks) ==
  uniqueArray(parseIdsFromBlock(blockRes.bigScriptBlock))
    \o uniqueArray(parseIdsFromBlock(sliceFrom(toks, blockRes.bigBlockEndIndex)))

\* Faulty variant: tail identifiers are put before block identifiers
candidateIdsTailFirst(blockRes, toks) ==
  uniqueArray(uniqueArray(parseIdsFromBlock(sliceFrom(toks, blockRes.bigBlockEndIndex)))
                \o uniqueArray(parseIdsFromBlock(blockRes.bigScriptBlock)))

candidateIds(blockRes, toks) ==
  LET uniqueBlockIds == uniqueArray(parseIdsFromBlock(blockRes.bigScriptBlock))
      tailHtml == sliceFrom(toks, blockRes.bigBlockEndIndex)
      uniqueTailIds == uniqueArray(parseIdsFromBlock(tailHtml))
  IN uniqueArray(uniqueBlockIds \o uniqueTailIds)

\* Faulty variant: a page that could not be parsed is reported as an empty folder
parseFailureResultEmpty == [files |-> <<>>, isEmptyFolder |-> TRUE]

\* the early return when no block is found
parseFailureResult == [files |-> <<>>, isEmptyFolder |-> FALSE]

ParsePage ==
  /\ pc = "parse"
  /\ folderNamesFromRawResponse' = extractFolderNamesFromRawResponse(html)
  /\ IF html.kind # "string"
       \* html.indexOf is not a function: findBigScriptBlock throws a TypeError
       THEN /\ pc' = "failed"
            /\ error' = "TypeError"
            /\ UNCHANGED <<blockResult, allCandidateIdsArray, result>>
       ELSE LET found == findBigScriptBlock(html.body)
            IN /\ blockResult' = found
               /\ error' = error
               /\ IF found = <<>>
                    THEN /\ result' = <<parseFailureResult>>
                         /\ pc' = "done"
                         /\ UNCHANGED allCandidateIdsArray
                    ELSE /\ allCandidateIdsArray' = candidateIds(found[1], html.body)
                         /\ pc' = "passA"
                         /\ UNCHANGED result
  /\ UNCHANGED sideVars
  /\ UNCHANGED <<upstream, status, html, idx, validFolders, invalidIds, detectedFiles,
                 fileIds, validFiles, calls>>

\* ------------------------------------------------------------------------
\* verifyFolderIds: one iteration of the loop per step (Pass A)
\* ------------------------------------------------------------------------

\* Faulty variant: the membership index is not consulted
folderProbeResultNoIndex(id, response, folderNames) ==
  IF response.threw THEN [kind |-> "invalid"]
  ELSE IF response.status >= 200 /\ response.status < 300
    THEN LET parsed == parseTitleFromHtml(response.data)
         IN IF parsed # <<>> /\ Len(parsed[1]) > 0
              THEN LET title == parsed[1]
                   IN IF hasFileExtension(title)
                        THEN [kind |-> "file",
                              entry |-> DriveFile(id, title, inferMimeTypeFromName(title),
                                                  fileViewUrlOf(id), downloadUrlOf(id))]
                        ELSE [kind |-> "folder",
                              entry |-> DriveFile(id, title, FOLDER_MIME_TYPE,
                                                  folderUrlOf(id), folderUrlOf(id))]
              ELSE [kind |-> "invalid"]
  ELSE [kind |-> "invalid"]

\* Faulty variant: the catch block forgets to record the identifier as invalid
folderProbeResultDropThrown(id, response, folderNames) ==
  IF response.threw THEN [kind |-> "dropped"]
  ELSE IF response.status >= 200 /\ response.status < 300
    THEN LET parsed == parseTitleFromHtml(response.data)
         IN IF parsed # <<>> /\ Len(parsed[1]) > 0
              THEN LET title == parsed[1]
                       isFolderFromRawResponse == title \in folderNames
                   IN IF hasFileExtension(title) /\ ~isFolderFromRawResponse
                        THEN [kind |-> "file",
                              entry |-> DriveFile(id, title, inferMimeTypeFromName(title),
                                                  fileViewUrlOf(id), downloadUrlOf(id))]
                        ELSE [kind |-> "folder",
                              entry |-> DriveFile(id, title, FOLDER_MIME_TYPE,
                                                  folderUrlOf(id), folderUrlOf(id))]
              ELSE [kind |-> "invalid"]
  ELSE [kind |-> "invalid"]

\* Faulty variant: the status of the answer is not looked at
folderProbeResultAnyStatus(id, response, folderNames) ==
  IF response.threw THEN [kind |-> "invalid"]
  ELSE LET parsed == parseTitleFromHtml(response.data)
       IN IF parsed # <<>> /\ Len(parsed[1]) > 0
            THEN LET title == parsed[1]
                     isFolderFromRawResponse == title \in folderNames
                 IN IF hasFileExtension(title) /\ ~isFolderFromRawResponse
                      THEN [kind |-> "file",
                            entry |-> DriveFile(id, title, inferMimeTypeFromName(title),
                                                fileViewUrlOf(id), downloadUrlOf(id))]
                      ELSE [kind |-> "folder",
                            entry |-> DriveFile(id, title, FOLDER_MIME_TYPE,
                                                folderUrlOf(id), folderUrlOf(id))]
          ELSE [kind |-> "invalid"]

\* the body of the try block for one id: which array gets what
folderProbeResult(id, response, folderNames) ==
  IF response.threw THEN [kind |-> "invalid"]
  ELSE IF response.status >= 200 /\ response.status < 300
    THEN LET parsed == parseTitleFromHtml(response.data)
         IN IF parsed # <<>> /\ Len(parsed[1]) > 0
              THEN LET title == parsed[1]
                       isFolderFromRawResponse == title \in folderNames
                   IN IF hasFileExtension(title) /\ ~isFolderFromRawResponse
                        THEN [kind |-> "file",
                              entry |-> DriveFile(id, title, inferMimeTypeFromName(title),
                                                  fileViewUrlOf(id), downloadUrlOf(id))]
                        ELSE [kind |-> "folder",
                              entry |-> DriveFile(id, title, FOLDER_MIME_TYPE,
                                                  folderUrlOf(id), folderUrlOf(id))]
              ELSE [kind |-> "invalid"]
  ELSE [kind |-> "invalid"]

ProbeFolder ==
  /\ pc = "passA"
  /\ idx <= Len(allCandidateIdsArray)
  /\ \E response \in FolderProbeOutcomes :
       LET id == allCandidateIdsArray[idx]
           r == folderProbeResult(id, response, folderNamesFromRawResponse)
       IN /\ calls' = Append(calls, [url |-> folderUrlOf(id), pass |-> "A",
                                     outcome |-> response])
          /\ validFolders' = IF r.kind = "folder" THEN Append(validFolders, r.entry)
                             ELSE validFolders
          /\ detectedFiles' = IF r.kind = "file" THEN Append(detectedFiles, r.entry)
                              ELSE detectedFiles
          /\ invalidIds' = IF r.kind = "invalid" THEN Append(invalidIds, id)
                           ELSE invalidIds
  /\ idx' = idx + 1
  /\ UNCHANGED sideVars
  /\ UNCHANGED <<upstream, pc, status, html, folderNamesFromRawResponse, blockResult,
                 allCandidateIdsArray, fileIds, validFiles, result, error>>

\* STEP 7: verifyFolderIds returns; the file candidate set is built
\* Faulty variant: every unconfirmed candidate is probed a second time
fileCandidatesTwice(nonFolderIds) == nonFolderIds \o nonFolderIds

\* Faulty variant: the last unconfirmed candidate is left out
fileCandidatesSkipLast(nonFolderIds) ==
  uniqueArray(SubSeq(nonFolderIds, 1, Len(nonFolderIds) - 1))

\* Faulty variant: Pass B probes every candidate, confirmed in Pass A or not
fileCandidatesEveryCandidate(nonFolderIds) == uniqueArray(allCandidateIdsArray)

\* Faulty variant: the candidate set is kept in a Set that outlives the call
fileCandidatesShared(nonFolderIds) ==
  uniqueArray(nonFolderIds \o (IF runs = <<>> THEN <<>> ELSE runs[1].invalidIds))

fileCandidates(nonFolderIds) == uniqueArray(nonFolderIds)

BuildFileCandidates ==
  /\ pc = "passA"
  /\ idx > Len(allCandidateIdsArray)
  /\ fileIds' = fileCandidates(invalidIds)
  /\ idx' = 1
  /\ pc' = "passB"
  /\ UNCHANGED sideVars
  /\ UNCHANGED <<upstream, status, html, folderNamesFromRawResponse, blockResult,
                 allCandidateIdsArray, validFolders, invalidIds, detectedFiles,
                 validFiles, result, error, calls>>

\* ------------------------------------------------------------------------
\* verifyFileIds: one iteration of the loop per step (Pass B)
\* ------------------------------------------------------------------------

\* Faulty variant: the folder names of the raw response are not consulted
fileProbeResultNoIndex(id, response, folderNames) ==
  IF response.threw THEN <<>>
  ELSE IF response.status >= 200 /\ response.status < 300
    THEN LET parsed == parseTitleFromHtml(response.data)
         IN IF parsed # <<>> /\ Len(parsed[1]) > 0
              THEN <<DriveFile(id, parsed[1], inferMimeTypeFromName(parsed[1]),
                               fileViewUrlOf(id), downloadUrlOf(id))>>
              ELSE <<>>
  ELSE <<>>

\* Faulty variant: a title without a known extension gives no entry
fileProbeResultNeedsExtension(id, response, folderNames) ==
  IF response.threw THEN <<>>
  ELSE IF response.status >= 200 /\ response.status < 300
    THEN LET parsed == parseTitleFromHtml(response.data)
         IN IF parsed # <<>> /\ Len(parsed[1]) > 0
                /\ parsed[1] \notin folderNames /\ hasFileExtension(parsed[1])
              THEN <<DriveFile(id, parsed[1], inferMimeTypeFromName(parsed[1]),
                               fileViewUrlOf(id), downloadUrlOf(id))>>
              ELSE <<>>
  ELSE <<>>

\* <<entry>> when the id is pushed to validFiles, <<>> otherwise
fileProbeResult(id, response, folderNames) ==
  IF response.threw THEN <<>>
  ELSE IF response.status >= 200 /\ response.status < 300
    THEN LET parsed == parseTitleFromHtml(response.data)
         IN IF parsed # <<>> /\ Len(parsed[1]) > 0
              THEN LET title == parsed[1]
                   IN IF title \in folderNames THEN <<>>
                      ELSE <<DriveFile(id, title, inferMimeTypeFromName(title),
                                       fileViewUrlOf(id), downloadUrlOf(id))>>
              ELSE <<>>
  ELSE <<>>

ProbeFile ==
  /\ pc = "passB"
  /\ idx <= Len(fileIds)
  /\ \E response \in FileProbeOutcomes :
       LET id == fileIds[idx]
       IN /\ calls' = Append(calls, [url |-> fileViewUrlOf(id), pass |-> "B",
                                     outcome |-> response])
          /\ validFiles' = validFiles \o fileProbeResult(id, response,
                                                          folderNamesFromRawResponse)
  /\ idx' = idx + 1
  /\ UNCHANGED sideVars
  /\ UNCHANGED <<upstream, pc, status, html, folderNamesFromRawResponse, blockResult,
                 allCandidateIdsArray, validFolders, invalidIds, detectedFiles, fileIds,
                 result, error>>

\* ------------------------------------------------------------------------
\* STEP 9: combine
\* ------------------------------------------------------------------------

\* a listing accumulated in an array that outlives the call
combineResultsShared(folders, detected, files) ==
  LET all == folders \o detected \o files \o
             (IF runs = <<>> THEN <<>> ELSE runs[1].validFiles)
  IN [files |-> all, isEmptyFolder |-> Len(all) = 0]

combineResults(folders, detected, files) ==
  LET all == folders \o detected \o files
  IN [files |-> all, isEmptyFolder |-> Len(all) = 0]

\* Faulty variant: the listing is assembled without awaiting the end of Pass B
CombineBeforeLastProbe ==
  /\ pc = "passB"
  /\ result' = <<combineResults(validFolders, detectedFiles, validFiles)>>
  /\ pc' = "done"
  /\ UNCHANGED sideVars
  /\ UNCHANGED <<upstream, status, html, folderNamesFromRawResponse, blockResult,
                 allCandidateIdsArray, idx, validFolders, invalidIds, detectedFiles,
                 fileIds, validFiles, error, calls>>

Combine ==
  /\ pc = "passB"
  /\ idx > Len(fileIds)
  /\ result' = <<combineResults(validFolders, detectedFiles, validFiles)>>
  /\ pc' = "done"
  /\ UNCHANGED sideVars
  /\ UNCHANGED <<upstream, status, html, folderNamesFromRawResponse, blockResult,
                 allCandidateIdsArray, idx, validFolders, invalidIds, detectedFiles,
                 fileIds, validFiles, error, calls>>

Next ==
  \/ PrimaryFetch
  \/ ParsePage
  \/ ProbeFolder
  \/ BuildFileCandidates
  \/ ProbeFile
  \/ Combine

Spec == Init /\ [][Next]_vars

\* ------------------------------------------------------------------------
\* One run as a value: the locals of scrapePublicFolder in a record, and the
\* step the run takes when the pending axios.get is answered by `response`
\* (steps without a request ignore it).  The actions above are this step
\* function applied to the variables (RunFollowsRunStep).
\* ------------------------------------------------------------------------

newRun(page) ==
  [upstream |-> page, pc |-> "fetch", status |-> 0, html |-> NoData,
   folderNamesFromRawResponse |-> {}, blockResult |-> <<>>,
   allCandidateIdsArray |-> <<>>, idx |-> 1, validFolders |-> <<>>,
   invalidIds |-> <<>>, detectedFiles |-> <<>>, fileIds |-> <<>>,
   validFiles |-> <<>>, result |-> <<>>, error |-> "none", calls |-> <<>>]

runFetch(r, response) ==
  LET f == primaryFetchResult(response)
  IN [r EXCEPT !.calls = Append(@, [url |-> folderUrlOf(RootId), pass |-> "primary",
                                    outcome |-> response]),
               !.status = response.status,
               !.html = f.html,
               !.error = f.error,
               !.pc = pcAfterFetch(f.error)]

runParse(r) ==
  LET names == extractFolderNamesFromRawResponse(r.html)
  IN IF r.html.kind # "string"
       THEN [r EXCEPT !.folderNamesFromRawResponse = names,
                      !.pc = "failed", !.error = "TypeError"]
     ELSE LET found == findBigScriptBlock(r.html.body)
          IN IF found = <<>>
               THEN [r EXCEPT !.folderNamesFromRawResponse = names,
                              !.blockResult = found,
                              !.result = <<parseFailureResult>>,
                              !.pc = "done"]
               ELSE [r EXCEPT !.folderNamesFromRawResponse = names,
                              !.blockResult = found,
                              !.allCandidateIdsArray = candidateIds(found[1], r.html.body),
                              !.pc = "passA"]

runProbeFolder(r, response) ==
  LET id == r.allCandidateIdsArray[r.idx]
      p == folderProbeResult(id, response, r.folderNamesFromRawResponse)
  IN [r EXCEPT !.calls = Append(@, [url |-> folderUrlOf(id), pass |-> "A",
                                    outcome |-> response]),
               !.validFolders = IF p.kind = "folder" THEN Append(@, p.entry) ELSE @,
               !.detectedFiles = IF p.kind = "file" THEN Append(@, p.entry) ELSE @,
               !.invalidIds = IF p.kind = "invalid" THEN Append(@, id) ELSE @,
               !.idx = @ + 1]

runProbeFile(r, response) ==
  LET id == r.fileIds[r.idx]
  IN [r EXCEPT !.calls = Append(@, [url |-> fileViewUrlOf(id), pass |-> "B",
                                    outcome |-> response]),
               !.validFiles = @ \o fileProbeResult(id, response,
                                                   r.folderNamesFromRawResponse),
               !.idx = @ + 1]

runStep(r, response) ==
  CASE r.pc = "fetch" -> runFetch(r, response)
    [] r.pc = "parse" -> runParse(r)
    [] r.pc = "passA" /\ r.idx <= Len(r.allCandidateIdsArray) -> runProbeFolder(r, response)
    [] r.pc = "passA" /\ r.idx > Len(r.allCandidateIdsArray) ->
         [r EXCEPT !.fileIds = fileCandidates(r.invalidIds), !.idx = 1, !.pc = "passB"]
    [] r.pc = "passB" /\ r.idx <= Len(r.fileIds) -> runProbeFile(r, response)
    [] r.pc = "passB" /\ r.idx > Len(r.fileIds) ->
         [r EXCEPT !.result = <<combineResults(r.validFolders, r.detectedFiles,
                                               r.validFiles)>>,
                   !.pc = "done"]
    [] OTHER -> r

\* the variables of Spec as a run record
RunRecord ==
  [upstream |-> upstream, pc |-> pc, status |-> status, html |-> html,
   folderNamesFromRawResponse |-> folderNamesFromRawResponse,
   blockResult |-> blockResult, allCandidateIdsArray |-> allCandidateIdsArray,
   idx |-> idx, validFolders |-> validFolders, invalidIds |-> invalidIds,
   detectedFiles |-> detectedFiles, fileIds |-> fileIds, validFiles |-> validFiles,
   result |-> result, error |-> error, calls |-> calls]

\* the answers the pending request of a run can get
responsesFor(r) ==
  CASE r.pc = "fetch" -> {Threw} \cup {Response(s, r.upstream) : s \in PrimaryStatuses}
    [] r.pc = "passA" /\ r.idx <= Len(r.allCandidateIdsArray) -> FolderProbeOutcomes
    [] r.pc = "passB" /\ r.idx <= Len(r.fileIds) -> FileProbeOutcomes
    [] OTHER -> {Threw}

\* every step of Spec is runStep applied to the variables
RunFollowsRunStep ==
  [][\E response \in responsesFor(RunRecord) :
       RunRecord' = runStep(RunRecord, response)]_mainVars

\* ------------------------------------------------------------------------
\* Two runs of scrapePublicFolder(RootId) against one upstream whose answers
\* are fixed per locator, interleaved at their await points
\* ------------------------------------------------------------------------

TwoRunBodies ==
  {<<MarkerTok, DataIdTok(Id1), EndTok, DataIdTok(Id2)>>,
   <<MarkerTok, DataIdTok(Id1), DataIdTok(Id2), EndTok>>,
   <<MarkerTok, DataIdTok(Id1), EndTok, DataIdTok(Id1)>>,
   <<DataIdTok(Id1), MarkerTok, DataIdTok(Id2)>>}

TwoRunFolderOutcomes == {Threw, Response(200, PagePhotos), Response(200, PageReport)}

TwoRunFileOutcomes == {Response(404, PageReport), Response(299, PageReport)}

TwoRunProbeLocators ==
  {folderUrlOf(Id1), folderUrlOf(Id2), fileViewUrlOf(Id1), fileViewUrlOf(Id2)}

TwoRunAnswers ==
  {[primary |-> p, probe |-> f] :
     p \in {Threw, Response(200, NoData), Response(403, NoData)},  \* data: the page of the run
     f \in {g \in [TwoRunProbeLocators -> TwoRunFolderOutcomes \cup TwoRunFileOutcomes] :
              \A id \in {Id1, Id2} : /\ g[folderUrlOf(id)] \in TwoRunFolderOutcomes
                                      /\ g[fileViewUrlOf(id)] \in TwoRunFileOutcomes}}

\* the answer to the request the run is waiting for
answerFor(r) ==
  CASE r.pc = "fetch" ->
         IF answers.primary.threw THEN Threw
         ELSE Response(answers.primary.status, r.upstream)
    [] r.pc = "passA" /\ r.idx <= Len(r.allCandidateIdsArray) ->
         answers.probe[folderUrlOf(r.allCandidateIdsArray[r.idx])]
    [] r.pc = "passB" /\ r.idx <= Len(r.fileIds) ->
         answers.probe[fileViewUrlOf(r.fileIds[r.idx])]
    [] OTHER -> Threw

MainIdle ==
  /\ upstream = NullData
  /\ pc = "idle"
  /\ status = 0
  /\ html = NoData
  /\ folderNamesFromRawResponse = {}
  /\ blockResult = <<>>
  /\ allCandidateIdsArray = <<>>
  /\ idx = 1
  /\ validFolders = <<>>
  /\ invalidIds = <<>>
  /\ detectedFiles = <<>>
  /\ fileIds = <<>>
  /\ validFiles = <<>>
  /\ result = <<>>
  /\ error = "none"
  /\ calls = <<>>

InitTwoRuns ==
  /\ MainIdle
  /\ answers \in TwoRunAnswers
  /\ \E page \in {StringPage(ivd, body) : ivd \in IvdOptions, body \in TwoRunBodies} :
       runs = <<newRun(page), newRun(page)>>
  /\ arg = <<>>
  /\ ret = <<>>

RunStep(i) ==
  /\ runs[i].pc \notin {"done", "failed"}
  /\ runs' = [runs EXCEPT ![i] = runStep(runs[i], answerFor(runs[i]))]
  /\ UNCHANGED <<mainVars, answers, arg, ret>>

NextTwoRuns == \E i \in 1..2 : RunStep(i)

SpecTwoRuns == InitTwoRuns /\ [][NextTwoRuns]_vars

\* ------------------------------------------------------------------------
\* Vocabulary of the properties
\* ------------------------------------------------------------------------

InSeq(x, s) == \E k \in 1..Len(s) : s[k] = x

IdsOf(entries) == [k \in 1..Len(entries) |-> entries[k].id]

Returned == result # <<>>

Listing == result[1].files

DomainErrors == {"FolderNotFoundError", "PublicAccessForbiddenError"}

CallsOf(pass) == SelectSeq(calls, LAMBDA c : c.pass = pass)

CallIds(pass) == [k \in 1..Len(CallsOf(pass)) |-> CallsOf(pass)[k].url.id]

\* the probe answered 2xx with a page from which a title can be parsed
ProbeConfirmed(outcome) ==
  /\ ~outcome.threw
  /\ outcome.status \in 200..299
  /\ parseTitleFromHtml(outcome.data) # <<>>

TitleOf(outcome) == parseTitleFromHtml(outcome.data)[1]

ConfirmedIn(pass, id) ==
  \E k \in 1..Len(calls) :
    calls[k].pass = pass /\ calls[k].url.id = id /\ ProbeConfirmed(calls[k].outcome)

HasMarkerPair(toks) ==
  \E i, j \in 1..Len(toks) : i < j /\ toks[i].t = "marker" /\ toks[j].t = "end"

BlockLocated == pc \in {"passA", "passB", "done"} /\ blockResult # <<>>

\* identifiers of the block, then of the tail, as they occur (with repetitions)
RawDiscovery ==
  parseIdsFromBlock(blockResult[1].bigScriptBlock)
    \o parseIdsFromBlock(sliceFrom(html.body, blockResult[1].bigBlockEndIndex))

FirstPos(id) ==
  CHOOSE k \in 1..Len(RawDiscovery) :
    RawDiscovery[k] = id /\ \A m \in 1..(k - 1) : RawDiscovery[m] # id

\* 1: container of Pass A, 2: leaf of Pass A, 3: leaf of Pass B
GroupOf(entry) ==
  IF entry.mimeType = FOLDER_MIME_TYPE THEN 1
  ELSE IF ConfirmedIn("A", entry.id) THEN 2
  ELSE 3

\* ------------------------------------------------------------------------
\* C1: in every returned result no two entries of files have the same id.
\* ------------------------------------------------------------------------
C1_UniqueIds ==
  Returned =>
    \A i, j \in 1..Len(Listing) : i # j => Listing[i].id # Listing[j].id

\* an identifier of the block occurs again in the tail, and it is listed
C1_Witness ==
  /\ Returned
  /\ blockResult # <<>>
  /\ \E k \in 1..Len(Listing) :
       /\ InSeq(Listing[k].id, parseIdsFromBlock(blockResult[1].bigScriptBlock))
       /\ InSeq(Listing[k].id,
                parseIdsFromBlock(sliceFrom(html.body, blockResult[1].bigBlockEndIndex)))

\* ------------------------------------------------------------------------
\* C2: the listing is Pass A containers, then Pass A leaves, then Pass B
\* leaves; inside a group entries follow the order in which their
\* identifiers were discovered (block before tail, first occurrence first).
\* ------------------------------------------------------------------------
C2_GroupedInDiscoveryOrder ==
  (Returned /\ blockResult # <<>>) =>
    /\ Len(Listing) = Len(validFolders) + Len(detectedFiles) + Len(validFiles)
    /\ \A k \in 1..Len(Listing) :
         /\ InSeq(Listing[k].id, RawDiscovery)
         /\ GroupOf(Listing[k]) = 1 => InSeq(Listing[k], validFolders)
         /\ GroupOf(Listing[k]) = 2 => InSeq(Listing[k], detectedFiles)
         /\ GroupOf(Listing[k]) = 3 =>
              InSeq(Listing[k], validFiles) /\ ConfirmedIn("B", Listing[k].id)
    /\ \A i, j \in 1..Len(Listing) :
         i < j =>
           \/ GroupOf(Listing[i]) < GroupOf(Listing[j])
           \/ /\ GroupOf(Listing[i]) = GroupOf(Listing[j])
              /\ FirstPos(Listing[i].id) < FirstPos(Listing[j].id)

\* two entries of one group, the first from the block and the second from the tail
C2_Witness ==
  /\ Returned
  /\ blockResult # <<>>
  /\ Len(Listing) = 2
  /\ GroupOf(Listing[1]) = GroupOf(Listing[2])
  /\ InSeq(Listing[1].id, parseIdsFromBlock(blockResult[1].bigScriptBlock))
  /\ ~InSeq(Listing[2].id, parseIdsFromBlock(blockResult[1].bigScriptBlock))

\* ------------------------------------------------------------------------
\* C3: the status of the primary fetch decides the outcome: 404 gives
\* NotFound, 403 and every other status >= 400 give AccessForbidden, and a
\* status below 400 gives neither domain error at the fetch step.
\* ------------------------------------------------------------------------
C3_StatusDecidesOutcome ==
  (pc # "fetch" /\ ~calls[1].outcome.threw) =>
    /\ status = 404 => (pc = "failed" /\ error = "FolderNotFoundError")
    /\ (status >= 400 /\ status # 404) =>
         (pc = "failed" /\ error = "PublicAccessForbiddenError")
    /\ status < 400 => error \notin DomainErrors

\* What does hold of the fetch step: the claimed mapping for every answer
\* whose body is a string (a null body with a status below 400 is what
\* refutes C3_StatusDecidesOutcome).
StatusMappingForStringBodies ==
  (pc # "fetch" /\ ~calls[1].outcome.threw) =>
    /\ status = 404 => (pc = "failed" /\ error = "FolderNotFoundError")
    /\ (status >= 400 /\ status # 404) =>
         (pc = "failed" /\ error = "PublicAccessForbiddenError")
    /\ (status < 400 /\ calls[1].outcome.data.kind = "string") =>
         error \notin DomainErrors

\* ------------------------------------------------------------------------
\* C4: a transport failure of the primary fetch ends the run with NotFound
\* after exactly one attempt.
\* ------------------------------------------------------------------------
C4_TransportFailureIsNotFound ==
  /\ Len(CallsOf("primary")) <= 1
  /\ (pc # "fetch" /\ calls[1].outcome.threw) =>
       /\ pc = "failed"
       /\ error = "FolderNotFoundError"
       /\ ~Returned
       /\ Len(calls) = 1

C4_Witness == pc = "failed" /\ calls[1].outcome.threw

\* ------------------------------------------------------------------------
\* C5: when the primary fetch ends in NotFound or AccessForbidden the run
\* stops there: no probe is issued, nothing is returned, and the caller gets
\* the error of the fetch step.
\* ------------------------------------------------------------------------
C5_DomainErrorAborts ==
  (pc # "fetch" /\ primaryFetchResult(calls[1].outcome).error \in DomainErrors) =>
    /\ pc = "failed"
    /\ error = primaryFetchResult(calls[1].outcome).error
    /\ ~Returned
    /\ Len(calls) = 1
    /\ allCandidateIdsArray = <<>>
    /\ validFolders = <<>> /\ detectedFiles = <<>> /\ validFiles = <<>>

\* AccessForbidden from a page whose markup has a block with a candidate
C5_Witness ==
  /\ error = "PublicAccessForbiddenError"
  /\ upstream.kind = "string"
  /\ findBigScriptBlock(upstream.body) # <<>>
  /\ candidateIds(findBigScriptBlock(upstream.body)[1], upstream.body) # <<>>

\* ------------------------------------------------------------------------
\* C6: a fetched page without a marker pair gives {files: [], isEmptyFolder:
\* false}, without an error and without any probe, whatever data-id
\* attributes it has.
\* ------------------------------------------------------------------------
C6_NoBlockNoProbes ==
  (pc \notin {"fetch", "parse"} /\ html.kind = "string" /\ ~HasMarkerPair(html.body)) =>
    /\ pc = "done"
    /\ error = "none"
    /\ result = <<[files |-> <<>>, isEmptyFolder |-> FALSE]>>
    /\ Len(calls) = 1

\* no pair, although the page has an opening marker and a well-formed data-id
C6_Witness ==
  /\ pc = "done"
  /\ html.kind = "string"
  /\ ~HasMarkerPair(html.body)
  /\ InSeq(MarkerTok, html.body)
  /\ parseIdsFromBlock(html.body) # <<>>

\* ------------------------------------------------------------------------
\* C7: in every returned result isEmptyFolder is true exactly when a marker
\* pair was located and the listing has no entry.
\* ------------------------------------------------------------------------
C7_EmptyIffParsedAndNoEntries ==
  Returned =>
    (result[1].isEmptyFolder <=> (HasMarkerPair(html.body) /\ Len(Listing) = 0))

\* a block with candidates that all fail both passes
C7_Witness ==
  /\ Returned
  /\ result[1].isEmptyFolder
  /\ Len(allCandidateIdsArray) = 2
  /\ Len(CallsOf("B")) = 2

\* ------------------------------------------------------------------------
\* C8: a candidate whose container probe answers 2xx with a title that has a
\* recognized extension and is in the membership index becomes a container,
\* never a leaf, and is not handed to Pass B.
\* ------------------------------------------------------------------------
C8_IndexOverridesExtension ==
  \A k \in 1..Len(calls) :
    LET c == calls[k]
    IN (/\ c.pass = "A"
        /\ ProbeConfirmed(c.outcome)
        /\ hasFileExtension(TitleOf(c.outcome))
        /\ TitleOf(c.outcome) \in folderNamesFromRawResponse) =>
         /\ \E m \in 1..Len(validFolders) :
              /\ validFolders[m].id = c.url.id
              /\ validFolders[m].name = TitleOf(c.outcome)
              /\ validFolders[m].mimeType = FOLDER_MIME_TYPE
         /\ ~InSeq(c.url.id, IdsOf(detectedFiles))
         /\ ~InSeq(c.url.id, invalidIds)
         /\ ~InSeq(c.url.id, fileIds)
         /\ ~InSeq(c.url.id, CallIds("B"))
         /\ Returned =>
              \A m \in 1..Len(Listing) :
                Listing[m].id = c.url.id => Listing[m].mimeType = FOLDER_MIME_TYPE

\* "archive.zip" is in the index and comes back as the title of a container probe
C8_Witness ==
  /\ Returned
  /\ NameArchive \in folderNamesFromRawResponse
  /\ \E m \in 1..Len(Listing) :
       Listing[m].name = NameArchive /\ Listing[m].mimeType = FOLDER_MIME_TYPE

\* ------------------------------------------------------------------------
\* C9: in Pass A a candidate with a 2xx probe and a parsed title is a leaf
\* exactly when the title ends in a known extension and is not in the
\* membership index, and a container otherwise; a leaf gets the media type
\* of its extension, application/octet-stream when the media-type table has
\* none.  Titles "Photos" and "report.pdf" with "Photos" in the index give a
\* container "Photos" followed by a leaf "report.pdf" of type application/pdf.
\* ------------------------------------------------------------------------
LeafEntry(id, name, mimeType) ==
  [id |-> id, name |-> name, mimeType |-> mimeType,
   viewUrl |-> fileViewUrlOf(id), downloadUrl |-> downloadUrlOf(id)]

ContainerEntry(id, name) ==
  [id |-> id, name |-> name, mimeType |-> FOLDER_MIME_TYPE,
   viewUrl |-> folderUrlOf(id), downloadUrl |-> folderUrlOf(id)]

PhotosReportScenario ==
  /\ Len(allCandidateIdsArray) = 2
  /\ Len(CallsOf("A")) = 2
  /\ CallsOf("A")[1].outcome = Response(200, PagePhotos)
  /\ CallsOf("A")[2].outcome = Response(200, PageReport)
  /\ NamePhotos \in folderNamesFromRawResponse

C9_PassAClassification ==
  /\ \A k \in 1..Len(calls) :
       LET c == calls[k]
           id == c.url.id
           title == TitleOf(c.outcome)
       IN (c.pass = "A" /\ ProbeConfirmed(c.outcome)) =>
            /\ IF hasFileExtension(title) /\ title \notin folderNamesFromRawResponse
                 THEN /\ InSeq(LeafEntry(id, title, inferMimeTypeFromName(title)),
                               detectedFiles)
                      /\ ~InSeq(id, IdsOf(validFolders))
                 ELSE /\ InSeq(ContainerEntry(id, title), validFolders)
                      /\ ~InSeq(id, IdsOf(detectedFiles))
            /\ title = NameReport =>
                 InSeq(LeafEntry(id, NameReport, "application/pdf"), detectedFiles)
            /\ title = NameClip =>
                 InSeq(LeafEntry(id, NameClip, "application/octet-stream"), detectedFiles)
            /\ title = NamePhotos =>
                 InSeq(ContainerEntry(id, NamePhotos), validFolders)
  /\ (Returned /\ PhotosReportScenario) =>
       Listing = <<ContainerEntry(allCandidateIdsArray[1], NamePhotos),
                   LeafEntry(allCandidateIdsArray[2], NameReport, "application/pdf")>>

C9_Witness ==
  /\ Returned
  /\ PhotosReportScenario
  /\ folderNamesFromRawResponse = {NamePhotos, NameArchive}

\* ------------------------------------------------------------------------
\* C10: once a block was located no probe outcome makes the run fail: every
\* candidate of Pass A is probed, every candidate Pass A left unconfirmed is
\* probed in Pass B, a result is returned, and a failed candidate only takes
\* its own entry out of the listing.
\* ------------------------------------------------------------------------
OutcomeOf(pass, id) ==
  (CHOOSE c \in {calls[k] : k \in 1..Len(calls)} : c.pass = pass /\ c.url.id = id).outcome

\* the candidates that Pass A left unconfirmed, in candidate order
UnconfirmedInA ==
  SelectSeq(allCandidateIdsArray, LAMBDA id : ~ConfirmedIn("A", id))

ListedAfterBothPasses(id) ==
  \/ ConfirmedIn("A", id)
  \/ /\ ConfirmedIn("B", id)
     /\ TitleOf(OutcomeOf("B", id)) \notin folderNamesFromRawResponse

C10_ProbeFailuresAreLocal ==
  BlockLocated =>
    /\ error = "none"
    /\ pc # "done" => ENABLED Next
    /\ pc = "passA" =>
         CallIds("A") = SubSeq(allCandidateIdsArray, 1, idx - 1) /\ CallsOf("B") = <<>>
    /\ pc = "passB" =>
         /\ CallIds("A") = allCandidateIdsArray
         /\ CallIds("B") = SubSeq(UnconfirmedInA, 1, idx - 1)
    /\ pc = "done" =>
         /\ Returned
         /\ CallIds("A") = allCandidateIdsArray
         /\ CallIds("B") = UnconfirmedInA
         /\ \A k \in 1..Len(allCandidateIdsArray) :
              InSeq(allCandidateIdsArray[k], IdsOf(Listing))
                <=> ListedAfterBothPasses(allCandidateIdsArray[k])
         /\ \A k \in 1..Len(Listing) : InSeq(Listing[k].id, allCandidateIdsArray)

\* the first candidate's probes throw in both passes, the second is listed
C10_Witness ==
  /\ pc = "done"
  /\ Len(allCandidateIdsArray) = 2
  /\ OutcomeOf("A", allCandidateIdsArray[1]).threw
  /\ OutcomeOf("B", allCandidateIdsArray[1]).threw
  /\ IdsOf(Listing) = <<allCandidateIdsArray[2]>>

\* ------------------------------------------------------------------------
\* C11: two runs of scrapePublicFolder on the same identifier, over the same
\* page markup and with the same answer for every probe locator, end the same
\* way however their requests interleave: the same listing (the same entries
\* in the same order, the same isEmptyFolder) or the same error, after the
\* same requests.
\* ------------------------------------------------------------------------

RunEnded(r) == r.pc \in {"done", "failed"}

MaxBlockTokens == 5

BlockInputs == SeqsUpTo({MarkerTok, EndTok, TextTok}, MaxBlockTokens)

InitBlock ==
  /\ MainIdle
  /\ answers = <<>>
  /\ runs = <<>>
  /\ arg \in {<<toks>> : toks \in BlockInputs}
  /\ ret = <<>>

CallFindBigScriptBlock ==
  /\ ret = <<>>
  /\ ret' = <<findBigScriptBlock(arg[1])>>
  /\ UNCHANGED <<mainVars, answers, runs, arg>>

NextBlock == CallFindBigScriptBlock

SpecBlock == InitBlock /\ [][NextBlock]_vars

\* the marker pairs of a markup: an opening marker at token i with the nearest
\* closing marker after it at token j
MarkerPairs(toks) ==
  {p \in (1..Len(toks)) \X (1..Len(toks)) :
     /\ p[1] < p[2]
     /\ toks[p[1]].t = "marker"
     /\ toks[p[2]].t = "end"
     /\ \A m \in (p[1] + 1)..(p[2] - 1) : toks[m].t # "end"}

pairStart(toks, p) == offsetOf(toks, p[1])

pairEnd(toks, p) == offsetOf(toks, p[2]) + EndMarkerLength

pairLength(toks, p) == pairEnd(toks, p) - pairStart(toks, p)

\* the pair the returned block was cut from
IsChosen(toks, found, p) ==
  /\ found.bigBlockEndIndex = pairEnd(toks, p)
  /\ found.bigScriptBlock = SubSeq(toks, p[1], p[2])

BlockReturned == ret # <<>> /\ MarkerPairs(arg[1]) # {}

\* C12 as stated: a block is returned and no other marker pair of the input
\* is as long as, or longer than, the chosen one
C12_NoOtherPairAsLong ==
  BlockReturned =>
     /\ ret[1] # <<>>
     /\ \E p \in MarkerPairs(arg[1]) :
          /\ IsChosen(arg[1], ret[1][1], p)
          /\ \A q \in MarkerPairs(arg[1]) \ {p} :
               pairLength(arg[1], q) < pairLength(arg[1], p)

\* C12 (amended): a block is returned, no other marker pair of the input is
\* longer than the chosen one, and of the pairs as long as it the chosen one
\* is the first
C12_NoOtherPairLonger ==
  BlockReturned =>
     /\ ret[1] # <<>>
     /\ \E p \in MarkerPairs(arg[1]) :
          /\ IsChosen(arg[1], ret[1][1], p)
          /\ \A q \in MarkerPairs(arg[1]) \ {p} :
               \/ pairLength(arg[1], q) < pairLength(arg[1], p)
               \/ /\ pairLength(arg[1], q) = pairLength(arg[1], p)
                  /\ pairStart(arg[1], p) < pairStart(arg[1], q)

\* two pairs of the input have the same, largest, length and the block
\* returned is the first of them
C12_Witness ==
  /\ BlockReturned
  /\ ret[1] # <<>>
  /\ \E p, q \in MarkerPairs(arg[1]) :
       /\ IsChosen(arg[1], ret[1][1], p)
       /\ pairStart(arg[1], p) < pairStart(arg[1], q)
       /\ pairLength(arg[1], q) = pairLength(arg[1], p)

\* ------------------------------------------------------------------------
\* The pipeline on pages whose data-id values are well formed, too short,
\* empty, or hold a character outside [A-Za-z0-9_-]
\* ------------------------------------------------------------------------

IdSlash == Append(Rep("a", MinIdLength - 1), "/")

IdDot == Append(Rep("B", MinIdLength), ".")

IdSamples == {Id1, Id2, IdShort, IdSlash, IdDot, <<>>}

IdsBodies ==
  {<<MarkerTok, DataIdTok(x), EndTok, DataIdTok(y)>> : x, y \in IdSamples}
    \cup {<<MarkerTok, DataIdTok(x), DataIdTok(y), EndTok>> : x, y \in IdSamples}

InitIds ==
  /\ upstream \in {StringPage(<<>>, body) : body \in IdsBodies}
  /\ pc = "fetch"
  /\ status = 0
  /\ html = NoData
  /\ folderNamesFromRawResponse = {}
  /\ blockResult = <<>>
  /\ allCandidateIdsArray = <<>>
  /\ idx = 1
  /\ validFolders = <<>>
  /\ invalidIds = <<>>
  /\ detectedFiles = <<>>
  /\ fileIds = <<>>
  /\ validFiles = <<>>
  /\ result = <<>>
  /\ error = "none"
  /\ calls = <<>>
  /\ SideIdle

SpecIds == InitIds /\ [][Next]_vars

WellFormedId(id) ==
  /\ Len(id) >= MinIdLength
  /\ \A k \in 1..Len(id) : id[k] \in IdChars

AllWellFormed(ids) == \A k \in 1..Len(ids) : WellFormedId(ids[k])

\* C13: parseIdsFromBlock returns no identifier shorter than 20 characters or
\* with a character outside [A-Za-z0-9_-] (on the page, on the block and on
\* the tail), so every candidate, every identifier probed in pass A or pass B
\* and every id of the returned listing has that shape
C13_OnlyWellFormedIds ==
  /\ html.kind = "string" => AllWellFormed(parseIdsFromBlock(html.body))
  /\ blockResult # <<>> => AllWellFormed(RawDiscovery)
  /\ AllWellFormed(allCandidateIdsArray)
  /\ AllWellFormed(CallIds("A"))
  /\ AllWellFormed(CallIds("B"))
  /\ Returned => AllWellFormed(IdsOf(Listing))

\* a page with a 20-character data-id that holds a character outside the
\* class and a well-formed one; the run probed and listed only the latter
C13_Witness ==
  /\ pc = "done"
  /\ \E k \in 1..Len(html.body) :
       /\ html.body[k].t = "dataId"
       /\ Len(html.body[k].v) >= MinIdLength
       /\ ~WellFormedId(html.body[k].v)
  /\ Len(calls) = 2
  /\ Len(Listing) = 1

\* ------------------------------------------------------------------------
\* C14: a run that fails for a reason other than a transport failure or an
\* upstream status of 400 or more (a fault raised while handling a primary
\* response that was received with a status below 400, such as a body that
\* is not a string) fails with a generic error, neither NotFound nor
\* AccessForbidden.
\* ------------------------------------------------------------------------
C14_OtherFaultsAreGeneric ==
  (pc = "failed" /\ ~calls[1].outcome.threw /\ calls[1].outcome.status < 400) =>
     error \notin DomainErrors

\* ------------------------------------------------------------------------
\* The routing layer: POST /extract, extractFolderId (two definitions),
\* validateFolderUrl and handleSingleFileLink.  Request texts are sequences
\* of characters; regular expressions are computed on them.
\* ------------------------------------------------------------------------

Digits == {"0", "1", "2", "3", "4", "5", "6", "7", "8", "9"}

\* text has the literal at position i (1-based)
hasAt(text, literal, i) ==
  /\ i >= 1
  /\ i + Len(literal) - 1 <= Len(text)
  /\ SubSeq(text, i, i + Len(literal) - 1) = literal

\* String.prototype.includes
includes(text, literal) == \E i \in 1..Len(text) : hasAt(text, literal, i)

\* length of the longest run of characters of the class starting at i
RECURSIVE runLength(_, _, _)
runLength(text, class, i) ==
  IF i > Len(text) \/ text[i] \notin class THEN 0
  ELSE 1 + runLength(text, class, i + 1)

least(S) == CHOOSE x \in S : \A y \in S : x <= y

\* /(<literal>|<literal>)([A-Za-z0-9_-]+)/ for literals of one length: the
\* capture of the leftmost match, <<>> when there is none
captureAfterOneOf(text, literals, width) ==
  LET starts == {i \in 1..Len(text) :
                   /\ \E literal \in literals : hasAt(text, literal, i)
                   /\ runLength(text, IdChars, i + width) >= 1}
  IN IF starts = {} THEN <<>>
     ELSE LET from == least(starts) + width
          IN <<SubSeq(text, from, from + runLength(text, IdChars, from) - 1)>>

\* /<literal>([A-Za-z0-9_-]+)/
captureAfter(text, literal) == captureAfterOneOf(text, {literal}, Len(literal))

SlashU == <<"/", "u", "/">>

SlashFolders == <<"/", "f", "o", "l", "d", "e", "r", "s", "/">>

\* /\/u\/\d+\/folders\/([A-Za-z0-9_-]+)/
captureAfterUserFolders(text) ==
  LET afterDigits(i) == i + Len(SlashU) + runLength(text, Digits, i + Len(SlashU))
      starts == {i \in 1..Len(text) :
                   /\ hasAt(text, SlashU, i)
                   /\ runLength(text, Digits, i + Len(SlashU)) >= 1
                   /\ hasAt(text, SlashFolders, afterDigits(i))
                   /\ runLength(text, IdChars, afterDigits(i) + Len(SlashFolders)) >= 1}
  IN IF starts = {} THEN <<>>
     ELSE LET from == afterDigits(least(starts)) + Len(SlashFolders)
          IN <<SubSeq(text, from, from + runLength(text, IdChars, from) - 1)>>

SlashFileD == <<"/", "f", "i", "l", "e", "/", "d", "/">>

MinFileIdLength == 5

\* /\/file\/d\/([a-zA-Z0-9_-]{5,})\// : the capture of the leftmost match
captureFileLink(text) ==
  LET idRun(i) == runLength(text, IdChars, i + Len(SlashFileD))
      starts == {i \in 1..Len(text) :
                   /\ hasAt(text, SlashFileD, i)
                   /\ idRun(i) >= MinFileIdLength
                   /\ hasAt(text, <<"/">>, i + Len(SlashFileD) + idRun(i))}
  IN IF starts = {} THEN <<>>
     ELSE LET from == least(starts) + Len(SlashFileD)
          IN <<SubSeq(text, from, from + idRun(least(starts)) - 1)>>

\* text.split(separator)
RECURSIVE split(_, _)
split(text, separator) ==
  IF \E k \in 1..Len(text) : text[k] = separator
  THEN LET k == least({m \in 1..Len(text) : text[m] = separator})
       IN <<SubSeq(text, 1, k - 1)>> \o split(SubSeq(text, k + 1, Len(text)), separator)
  ELSE <<text>>

HttpsScheme == <<"h", "t", "t", "p", "s", ":", "/", "/">>

\* new URL(text) for the request texts of this model (https URLs without
\* port, credentials, escapes or fragment): <<[hostname, pathname, search]>>,
\* or <<>> when the constructor throws
parseUrl(text) ==
  LET t == trim(text)
  IN IF ~hasAt(t, HttpsScheme, 1) THEN <<>>
     ELSE LET rest == SubSeq(t, Len(HttpsScheme) + 1, Len(t))
              cut(chars) == IF \E k \in 1..Len(rest) : rest[k] \in chars
                            THEN least({k \in 1..Len(rest) : rest[k] \in chars})
                            ELSE Len(rest) + 1
              hostEnd == cut({"/", "?"})
              pathEnd == cut({"?"})
              path == SubSeq(rest, hostEnd, pathEnd - 1)
              query == SubSeq(rest, pathEnd, Len(rest))
          IN IF hostEnd = 1 THEN <<>>
             ELSE <<[hostname |-> toLowerCase(SubSeq(rest, 1, hostEnd - 1)),
                     pathname |-> IF path = <<>> THEN <<"/">> ELSE path,
                     search |-> IF Len(query) <= 1 THEN <<>> ELSE query]>>

\* url.searchParams.get("id"): <<value>>, or <<>> for null
searchParamId(search) ==
  IF search = <<>> THEN <<>>
  ELSE LET pairs == split(SubSeq(search, 2, Len(search)), "&")
           isId(p) == p = <<"i", "d">> \/ hasAt(p, <<"i", "d", "=">>, 1)
           hits == {k \in 1..Len(pairs) : isId(pairs[k])}
       IN IF hits = {} THEN <<>>
          ELSE LET p == pairs[least(hits)]
               IN <<SubSeq(p, Len(<<"i", "d", "=">>) + 1, Len(p))>>

HostDrive == <<"d", "r", "i", "v", "e", ".", "g", "o", "o", "g", "l", "e", ".", "c", "o", "m">>

HostDocs == <<"d", "o", "c", "s", ".", "g", "o", "o", "g", "l", "e", ".", "c", "o", "m">>

\* /^[a-zA-Z0-9_-]+$/
bareIdRegex(text) == Len(text) >= 1 /\ \A k \in 1..Len(text) : text[k] \in IdChars

MinFolderIdLength == 10

\* /^[A-Za-z0-9_-]{10,}$/
bareLongIdRegex(text) ==
  Len(text) >= MinFolderIdLength /\ \A k \in 1..Len(text) : text[k] \in IdChars

InvalidFolderUrlError == [ok |-> FALSE, id |-> <<>>]

FolderIdOf(id) == [ok |-> TRUE, id |-> id]

\* extractFolderId, first definition
extractFolderIdFirst(folderUrl) ==
  LET trimmed == trim(folderUrl)
      parsed == parseUrl(trimmed)
  IN IF folderUrl = <<>> THEN InvalidFolderUrlError
     ELSE IF bareIdRegex(trimmed) /\ ~includes(trimmed, <<":", "/", "/">>)
       THEN FolderIdOf(trimmed)
     ELSE IF parsed = <<>> THEN InvalidFolderUrlError
     ELSE IF toLowerCase(parsed[1].hostname) \notin {HostDrive, HostDocs}
       THEN InvalidFolderUrlError
     ELSE IF captureAfter(parsed[1].pathname, SlashFileD) # <<>>
       THEN InvalidFolderUrlError
     ELSE IF captureAfter(parsed[1].pathname, SlashFolders) # <<>>
       THEN FolderIdOf(captureAfter(parsed[1].pathname, SlashFolders)[1])
     ELSE IF searchParamId(parsed[1].search) # <<>> /\ searchParamId(parsed[1].search)[1] # <<>>
       THEN FolderIdOf(searchParamId(parsed[1].search)[1])
     ELSE InvalidFolderUrlError

QuestionId == <<"?", "i", "d", "=">>

AmpersandId == <<"&", "i", "d", "=">>

FolderviewId == <<"f", "o", "l", "d", "e", "r", "v", "i", "e", "w", "?", "i", "d", "=">>

OpenId == <<"o", "p", "e", "n", "?", "i", "d", "=">>

\* the five patterns of the second definition applied in order to
\* path + search: the first capture of at least 10 characters, <<>> for none
RECURSIVE firstLongCapture(_)
firstLongCapture(captures) ==
  IF captures = <<>> THEN <<>>
  ELSE IF Head(captures) # <<>> /\ Len(Head(captures)[1]) >= MinFolderIdLength
    THEN Head(captures)
  ELSE firstLongCapture(Tail(captures))

patternCaptures(text) ==
  << captureAfterUserFolders(text),
     captureAfter(text, SlashFolders),
     captureAfter(text, FolderviewId),
     captureAfter(text, OpenId),
     captureAfterOneOf(text, {QuestionId, AmpersandId}, Len(QuestionId)) >>

\* extractFolderId, second definition
extractFolderIdSecond(folderUrl) ==
  LET trimmed == trim(folderUrl)
      parsed == parseUrl(trimmed)
  IN IF folderUrl = <<>> \/ trimmed = <<>> THEN InvalidFolderUrlError
     ELSE IF bareLongIdRegex(trimmed) /\ ~includes(trimmed, <<":", "/", "/">>)
       THEN FolderIdOf(trimmed)
     ELSE IF parsed = <<>> THEN InvalidFolderUrlError
     ELSE IF toLowerCase(parsed[1].hostname) \notin {HostDrive, HostDocs}
       THEN InvalidFolderUrlError
     ELSE IF captureAfter(parsed[1].pathname, SlashFileD) # <<>>
       THEN InvalidFolderUrlError
     ELSE LET found == firstLongCapture(patternCaptures(parsed[1].pathname \o parsed[1].search))
              idParam == searchParamId(parsed[1].search)
          IN IF found # <<>> THEN FolderIdOf(found[1])
             ELSE IF idParam # <<>> /\ bareLongIdRegex(idParam[1]) THEN FolderIdOf(idParam[1])
             ELSE InvalidFolderUrlError

\* validateFolderUrl
validateFolderUrl(folderUrl) ==
  LET trimmed == trim(folderUrl)
      parsed == parseUrl(trimmed)
  IN IF folderUrl = <<>> \/ trimmed = <<>> THEN FALSE
     ELSE IF bareLongIdRegex(trimmed) /\ ~includes(trimmed, <<":", "/", "/">>) THEN TRUE
     ELSE IF parsed = <<>> THEN FALSE
     ELSE IF toLowerCase(parsed[1].hostname) \notin {HostDrive, HostDocs} THEN FALSE
     ELSE \/ firstLongCapture(patternCaptures(parsed[1].pathname \o parsed[1].search)) # <<>>
          \/ /\ searchParamId(parsed[1].search) # <<>>
             /\ bareLongIdRegex(searchParamId(parsed[1].search)[1])

\* ------------------------------------------------------------------------
\* handleSingleFileLink and the POST /extract handler
\* ------------------------------------------------------------------------

SorryText == "Sorry, the file you have requested does not exist."

\* a page answered to the single-file request: og:title content, <title>
\* content, and whether the page holds SorryText
SinglePage(og, title, sorry) ==
  [kind |-> "string", og |-> og, title |-> title, sorry |-> sorry]

\* (message: the optional `message` of ExtractFilesResponse, <<>> when the body
\* has none; an error body carries its text inside `error`)
RespondedTo(httpStatus, code, fetched, files) ==
  [stage |-> "responded", status |-> httpStatus, code |-> code, id |-> <<>>,
   fetched |-> fetched, files |-> files, answer |-> <<>>, message |-> <<>>]

\* the name handleSingleFileLink gives the entry
singleFileName(fileId, data) ==
  LET title == IF data.title # <<>> THEN stripBrand(trim(data.title[1])) ELSE <<>>
  IN IF title # <<>> THEN title ELSE fileId

\* (the answer is kept beside the response for the properties to read)
handleSingleFileLink(fileId, response) ==
  LET fetched == <<fileViewUrlOf(fileId)>>
      Responded(httpStatus, code, sent, files) ==
        [RespondedTo(httpStatus, code, sent, files) EXCEPT !.answer = <<response>>]
  IN IF response.threw
       THEN Responded(500, "INTERNAL_ERROR", fetched, <<>>)
     ELSE IF response.status = 404 /\ response.data.sorry
       THEN Responded(404, "FOLDER_NOT_FOUND", fetched, <<>>)
     ELSE IF response.status >= 400 /\ response.status < 600
       THEN Responded(403, "FOLDER_ACCESS_FORBIDDEN", fetched, <<>>)
     ELSE Responded(200, "OK", fetched,
                    <<DriveFile(fileId, singleFileName(fileId, response.data),
                                DEFAULT_MIME_TYPE, fileViewUrlOf(fileId),
                                downloadUrlOf(fileId))>>)

\* the definition of extractFolderId the route is built with
extractFolderId(definition, folderUrl) ==
  IF definition = "first" THEN extractFolderIdFirst(folderUrl)
  ELSE extractFolderIdSecond(folderUrl)

\* POST /extract up to its first await: a 400 answer, or the request that
\* handleSingleFileLink or scrapePublicFolder sends
postExtract(body, route, definition) ==
  IF body = <<>> \/ body[1] = <<>>
    THEN RespondedTo(400, "INVALID_FOLDER_URL", <<>>, <<>>)
  ELSE IF route = "validating" /\ ~validateFolderUrl(body[1])
    THEN RespondedTo(400, "INVALID_FOLDER_URL", <<>>, <<>>)
  ELSE IF parseUrl(body[1]) # <<>> /\ captureFileLink(parseUrl(body[1])[1].pathname) # <<>>
    THEN LET fileId == captureFileLink(parseUrl(body[1])[1].pathname)[1]
         IN [stage |-> "singleFile", status |-> 0, code |-> "", id |-> <<fileId>>,
             fetched |-> <<fileViewUrlOf(fileId)>>, files |-> <<>>, answer |-> <<>>,
             message |-> <<>>]
  ELSE LET extracted == extractFolderId(definition, body[1])
       IN IF ~extracted.ok
            THEN RespondedTo(400, "INVALID_FOLDER_URL", <<>>, <<>>)
          ELSE [stage |-> "scraping", status |-> 0, code |-> "", id |-> <<extracted.id>>,
                fetched |-> <<folderUrlOf(extracted.id)>>, files |-> <<>>, answer |-> <<>>,
                message |-> <<>>]

\* what scrapePublicFolder gives back to the route
ScrapeOutcomes ==
  {[error |-> "none", result |-> parseFailureResult],
   [error |-> "none", result |-> combineResults(<<>>, <<>>, <<>>)],
   [error |-> "none",
    result |-> combineResults(<<>>, <<>>,
                 <<DriveFile(Id1, NameReport, inferMimeTypeFromName(NameReport),
                             fileViewUrlOf(Id1), downloadUrlOf(Id1))>>)],
   [error |-> "FolderNotFoundError", result |-> parseFailureResult],
   [error |-> "PublicAccessForbiddenError", result |-> parseFailureResult],
   [error |-> "TypeError", result |-> parseFailureResult]}

EmptyFolderMessage ==
  "Folder appears to be empty. Make sure it contains files and that 'Anyone with the link' has at least view permission."

NothingParsedMessage ==
  "The folder HTML was loaded but no files could be parsed. Please ensure the folder is shared as 'Anyone with the link can view/edit' and try again. Google Drive HTML structure may have changed."

\* Faulty variant: every listing without entries is reported as an empty folder
scrapeResponseAlwaysEmpty(fetched, outcome) ==
  CASE outcome.error = "FolderNotFoundError" ->
         RespondedTo(404, "FOLDER_NOT_FOUND", fetched, <<>>)
    [] outcome.error = "PublicAccessForbiddenError" ->
         RespondedTo(403, "FOLDER_ACCESS_FORBIDDEN", fetched, <<>>)
    [] outcome.error = "none" /\ Len(outcome.result.files) > 0 ->
         RespondedTo(200, "OK", fetched, outcome.result.files)
    [] outcome.error = "none" /\ Len(outcome.result.files) = 0 ->
         [RespondedTo(200, "OK", fetched, <<>>) EXCEPT !.message = <<EmptyFolderMessage>>]
    [] OTHER -> RespondedTo(500, "INTERNAL_ERROR", fetched, <<>>)

\* the answer of POST /extract once scrapePublicFolder has returned or thrown
scrapeResponse(fetched, outcome) ==
  CASE outcome.error = "FolderNotFoundError" ->
         RespondedTo(404, "FOLDER_NOT_FOUND", fetched, <<>>)
    [] outcome.error = "PublicAccessForbiddenError" ->
         RespondedTo(403, "FOLDER_ACCESS_FORBIDDEN", fetched, <<>>)
    [] outcome.error = "none" /\ Len(outcome.result.files) > 0 ->
         RespondedTo(200, "OK", fetched, outcome.result.files)
    [] outcome.error = "none" /\ Len(outcome.result.files) = 0
         /\ outcome.result.isEmptyFolder ->
         [RespondedTo(200, "OK", fetched, <<>>) EXCEPT !.message = <<EmptyFolderMessage>>]
    [] outcome.error = "none" /\ Len(outcome.result.files) = 0
         /\ ~outcome.result.isEmptyFolder ->
         [RespondedTo(200, "OK", fetched, <<>>) EXCEPT !.message = <<NothingParsedMessage>>]
    [] OTHER -> RespondedTo(500, "INTERNAL_ERROR", fetched, <<>>)

SinglePageTitles == SinglePage(<<NamePhotos>>, <<NameNotes>>, FALSE)

SinglePageBranded == SinglePage(<<>>, <<NameReport \o BrandSuffix>>, FALSE)

SinglePageOgOnly == SinglePage(<<NameArchive \o BrandSuffix>>, <<>>, FALSE)

SinglePageBlank == SinglePage(<<>>, <<BrandSuffix>>, FALSE)

SinglePageSorry == SinglePage(<<>>, <<NameNotes>>, TRUE)

SingleFileOutcomes ==
  {Threw, Response(404, SinglePageSorry), Response(404, SinglePageBlank),
   Response(500, SinglePageBlank), Response(200, SinglePageTitles),
   Response(200, SinglePageBranded), Response(200, SinglePageOgOnly),
   Response(200, SinglePageBlank)}

Hosts == {HostDrive, HostDocs, <<"e", "v", "i", "l", ".", "e", "x", "a", "m", "p", "l", "e">>}

IdThree == <<"a", "b", "c">>

FileIdFive == <<"a", "b", "c", "d", "e">>

RequestTexts ==
  {<<>>, IdThree, RootId, <<" ">> \o RootId \o <<" ">>,
   SubSeq(RootId, 1, MinFolderIdLength - 1), <<"r", "o", "o", "t", "/", "F", "o", "l", "d", "e", "r">>}
  \cup {HttpsScheme \o host \o tail :
          host \in Hosts,
          tail \in {<<"/", "d", "r", "i", "v", "e">>}
            \cup {<<"/", "d", "r", "i", "v", "e", "/", "f", "o", "l", "d", "e", "r", "s", "/">> \o x : x \in {IdThree, RootId}}
            \cup {<<"/", "d", "r", "i", "v", "e", "/", "u", "/", "1", "/", "f", "o", "l", "d", "e", "r", "s", "/">> \o x : x \in {IdThree, RootId}}
            \cup {<<"/", "d", "r", "i", "v", "e", "/", "f", "o", "l", "d", "e", "r", "s", "/">> \o x \o <<"?", "r", "e", "s", "o", "u", "r", "c", "e", "k", "e", "y", "=", "k">> : x \in {IdThree, RootId}}
            \cup {<<"/", "o", "p", "e", "n", "?", "i", "d", "=">> \o x : x \in {IdThree, RootId, RootId \o <<"/", ".", ".", "/", "x">>}}
            \cup {<<"/", "f", "o", "l", "d", "e", "r", "v", "i", "e", "w", "?", "i", "d", "=">> \o x : x \in {IdThree, RootId}}
            \cup {<<"/", "o", "p", "e", "n", "?", "x", "=", "1", "&", "i", "d", "=">> \o x : x \in {IdThree, RootId}}
            \cup {<<"/", "d", "r", "i", "v", "e", "/", "f", "o", "l", "d", "e", "r", "s", "/">> \o IdThree \o <<"?", "i", "d", "=">> \o RootId}
            \cup {<<"/", "f", "i", "l", "e", "/", "d", "/">> \o x \o <<"/", "v", "i", "e", "w">> : x \in {FileIdFive, SubSeq(FileIdFive, 1, MinFileIdLength - 1)}}
            \cup {<<"/", "f", "i", "l", "e", "/", "d", "/">> \o FileIdFive \o <<"/", "f", "o", "l", "d", "e", "r", "s", "/">> \o RootId} }

RequestBodies == {<<>>} \cup {<<text>> : text \in RequestTexts}

InitRoute ==
  /\ MainIdle
  /\ answers = <<>>
  /\ runs = <<>>
  /\ arg \in {<<[body |-> body, route |-> route, definition |-> definition]>> :
                body \in RequestBodies,
                route \in {"plain", "validating"},
                definition \in {"first", "second"}}
  /\ ret = <<>>

\* POST /extract receives the request
PostExtract ==
  /\ ret = <<>>
  /\ ret' = <<postExtract(arg[1].body, arg[1].route, arg[1].definition)>>
  /\ UNCHANGED <<mainVars, answers, runs, arg>>

\* the single-file request is answered
SingleFileAnswered ==
  /\ ret # <<>>
  /\ ret[1].stage = "singleFile"
  /\ \E response \in SingleFileOutcomes :
       ret' = <<handleSingleFileLink(ret[1].id[1], response)>>
  /\ UNCHANGED <<mainVars, answers, runs, arg>>

\* scrapePublicFolder returns or throws
ScrapeReturned ==
  /\ ret # <<>>
  /\ ret[1].stage = "scraping"
  /\ \E outcome \in ScrapeOutcomes :
       ret' = <<scrapeResponse(ret[1].fetched, outcome)>>
  /\ UNCHANGED <<mainVars, answers, runs, arg>>

NextRoute == PostExtract \/ SingleFileAnswered \/ ScrapeReturned

SpecRoute == InitRoute /\ [][NextRoute]_vars

\* the folder identifiers scrapePublicFolder was called with
ScrapedIds ==
  IF ret = <<>> THEN {}
  ELSE {ret[1].fetched[k].id : k \in {m \in 1..Len(ret[1].fetched) :
                                       ret[1].fetched[m].shape = "drive/folders"}}

ValidFolderId(id) ==
  /\ Len(id) >= MinFolderIdLength
  /\ \A k \in 1..Len(id) : id[k] \in IdChars

RoutedIdsAreValid ==
  /\ \A id \in ScrapedIds : ValidFolderId(id)
  /\ (ret # <<>> /\ ret[1].code = "INVALID_FOLDER_URL") =>
        (ret[1].status = 400 /\ ret[1].fetched = <<>>)

\* ------------------------------------------------------------------------
\* C15: every identifier with which POST /extract calls scrapePublicFolder
\* has at least 10 characters, all of [A-Za-z0-9_-], and a request answered
\* with INVALID_FOLDER_URL has status 400 and has caused no upstream fetch.
\* ------------------------------------------------------------------------
C15_RoutedIdsWellFormed == arg # <<>> => RoutedIdsAreValid

\* What does hold: the same for a route built with the second definition of
\* extractFolderId, with or without validateFolderUrl in front of it.
SecondDefinitionIdsWellFormed ==
  (arg # <<>> /\ arg[1].definition = "second") => RoutedIdsAreValid

\* handleSingleFileLink has answered after a 2xx answer of the upstream
SingleFileResolved ==
  /\ ret # <<>>
  /\ ret[1].stage = "responded"
  /\ ret[1].answer # <<>>
  /\ ~ret[1].answer[1].threw
  /\ ret[1].answer[1].status >= 200
  /\ ret[1].answer[1].status < 300

\* ------------------------------------------------------------------------
\* C16: handleSingleFileLink names its entry as the pipeline's title parsing
\* would (og:title first, <title> second, provider brand stripped), and a 2xx
\* page with no parseable title yields no entry.
\* ------------------------------------------------------------------------
C16_SingleFileUsesPipelineTitle ==
  SingleFileResolved =>
     LET parsed == parseTitleFromHtml(ret[1].answer[1].data)
     IN IF parsed = <<>> THEN ret[1].files = <<>>
        ELSE /\ Len(ret[1].files) = 1
             /\ ret[1].files[1].name = parsed[1]

\* What does hold: exactly one entry, named by the <title> element with the
\* brand stripped, or by the identifier when that leaves nothing, with the
\* default media type.
SingleFileNamedByTitleElement ==
  SingleFileResolved =>
     LET data == ret[1].answer[1].data
         title == IF data.title # <<>> THEN stripBrand(trim(data.title[1])) ELSE <<>>
     IN /\ Len(ret[1].files) = 1
        /\ ret[1].files[1].name = (IF title # <<>> THEN title ELSE ret[1].files[1].id)
        /\ ret[1].files[1].mimeType = DEFAULT_MIME_TYPE

\* number of requests of a pass made for an identifier
ProbeCount(pass, id) ==
  Cardinality({k \in 1..Len(calls) : calls[k].pass = pass /\ calls[k].url.id = id})

InBlock(id) == InSeq(id, parseIdsFromBlock(blockResult[1].bigScriptBlock))

\* ------------------------------------------------------------------------
\* C17: Pass B probes exactly the candidates Pass A left invalid (probe
\* threw, non-2xx, or 2xx without a parseable title), each once and against
\* the file-view locator, whether they come from the block or from the tail;
\* it probes no candidate Pass A classified; a candidate that fails Pass B too
\* contributes no entry and no error.
\* ------------------------------------------------------------------------
C17_PassBProbesExactlyInvalid ==
  (BlockLocated /\ pc = "done") =>
    /\ invalidIds = UnconfirmedInA
    /\ \A k \in 1..Len(allCandidateIdsArray) :
         LET id == allCandidateIdsArray[k]
         IN /\ ProbeCount("B", id) = (IF ConfirmedIn("A", id) THEN 0 ELSE 1)
            /\ (~ConfirmedIn("A", id) /\ ~ConfirmedIn("B", id)) =>
                  ~InSeq(id, IdsOf(Listing))
    /\ \A k \in 1..Len(CallsOf("B")) :
         /\ CallsOf("B")[k].url = fileViewUrlOf(CallsOf("B")[k].url.id)
         /\ InSeq(CallsOf("B")[k].url.id, allCandidateIdsArray)
    /\ Returned
    /\ error = "none"

\* a block candidate answered 404 and a tail candidate answered 200 without
\* a title in Pass A; Pass B probed both, and listed only the first
C17_Witness ==
  /\ BlockLocated
  /\ pc = "done"
  /\ Len(allCandidateIdsArray) = 2
  /\ InBlock(allCandidateIdsArray[1])
  /\ ~InBlock(allCandidateIdsArray[2])
  /\ OutcomeOf("A", allCandidateIdsArray[1]).status = 404
  /\ OutcomeOf("A", allCandidateIdsArray[2]) = Response(200, PageNone)
  /\ CallIds("B") = allCandidateIdsArray
  /\ OutcomeOf("B", allCandidateIdsArray[2]).threw
  /\ IdsOf(Listing) = <<allCandidateIdsArray[1]>>

\* the entries Pass B has created
PassBEntries == validFiles

\* ------------------------------------------------------------------------
\* C18: a Pass B candidate whose file-view probe answers 2xx with a title
\* that is one of the folder names of the raw response produces no entry of
\* any kind: no entry created by Pass B has such a name, and the candidate is
\* absent from the returned listing.
\* ------------------------------------------------------------------------
C18_PassBDropsIndexTitles ==
  /\ \A k \in 1..Len(PassBEntries) :
       PassBEntries[k].name \notin folderNamesFromRawResponse
  /\ (BlockLocated /\ pc = "done") =>
       \A k \in 1..Len(CallsOf("B")) :
         LET c == CallsOf("B")[k]
         IN (ProbeConfirmed(c.outcome) /\ TitleOf(c.outcome) \in folderNamesFromRawResponse)
               => ~InSeq(c.url.id, IdsOf(Listing))

\* the only candidate was invalid in Pass A, its file page is titled with a
\* folder name of the raw response, and the listing is empty
C18_Witness ==
  /\ BlockLocated
  /\ pc = "done"
  /\ Len(allCandidateIdsArray) = 1
  /\ Len(CallsOf("B")) = 1
  /\ ProbeConfirmed(CallsOf("B")[1].outcome)
  /\ TitleOf(CallsOf("B")[1].outcome) \in folderNamesFromRawResponse
  /\ Listing = <<>>

\* ------------------------------------------------------------------------
\* C19: a Pass B candidate whose file-view probe answers 2xx with a title
\* that is not a folder name of the raw response becomes a file entry, with
\* or without a recognised extension; its media type is the one
\* inferMimeTypeFromName gives for the title (application/octet-stream when
\* the table has none), and Pass B creates no folder entry.
\* ------------------------------------------------------------------------
C19_PassBMakesLeaves ==
  /\ \A k \in 1..Len(PassBEntries) : PassBEntries[k].mimeType # FOLDER_MIME_TYPE
  /\ (BlockLocated /\ pc = "done") =>
       \A k \in 1..Len(CallsOf("B")) :
         LET c == CallsOf("B")[k]
         IN (ProbeConfirmed(c.outcome) /\ TitleOf(c.outcome) \notin folderNamesFromRawResponse)
               => InSeq(DriveFile(c.url.id, TitleOf(c.outcome),
                                  inferMimeTypeFromName(TitleOf(c.outcome)),
                                  fileViewUrlOf(c.url.id), downloadUrlOf(c.url.id)),
                        PassBEntries)

\* Pass B listed a title without extension under the default media type and
\* a title with an extension under the type of the table
C19_Witness ==
  /\ BlockLocated
  /\ pc = "done"
  /\ Len(PassBEntries) = 2
  /\ ~hasFileExtension(PassBEntries[1].name)
  /\ PassBEntries[1].mimeType = DEFAULT_MIME_TYPE
  /\ hasFileExtension(PassBEntries[2].name)
  /\ PassBEntries[2].mimeType \notin {DEFAULT_MIME_TYPE, FOLDER_MIME_TYPE}
  /\ Listing = PassBEntries

\* ------------------------------------------------------------------------
\* C20: a run never repeats a request: the primary page is fetched exactly
\* once, every candidate identifier exactly once against the folder locator
\* and at most once against the file-view locator, so a run with n distinct
\* candidates makes at most 1 + 2n requests.
\* ------------------------------------------------------------------------
C20_NoRetry ==
  /\ Len(CallsOf("primary")) = (IF pc = "fetch" THEN 0 ELSE 1)
  /\ \A k \in 1..Len(calls) :
       calls[k].pass # "primary" => InSeq(calls[k].url.id, allCandidateIdsArray)
  /\ \A k \in 1..Len(allCandidateIdsArray) :
       LET id == allCandidateIdsArray[k]
       IN /\ ProbeCount("A", id) <= 1
          /\ ProbeCount("B", id) <= 1
          /\ pc \in {"passB", "done"} => ProbeCount("A", id) = 1
  /\ Len(calls) <= 1 + 2 * Cardinality({allCandidateIdsArray[k] :
                                          k \in 1..Len(allCandidateIdsArray)})

\* two candidates, both unconfirmed in Pass A: the run ends after 1 + 2 * 2
\* requests
C20_Witness ==
  /\ pc = "done"
  /\ Len(allCandidateIdsArray) = 2
  /\ Len(CallsOf("primary")) = 1
  /\ Len(CallsOf("A")) = 2
  /\ Len(CallsOf("B")) = 2
  /\ Len(calls) = 5

\* the entry was created from a confirming answer of the given pass for its
\* own identifier: a candidate, answered 2xx with the title the entry is
\* named by
CreatedFrom(pass, entry) ==
  /\ InSeq(entry.id, allCandidateIdsArray)
  /\ \E k \in 1..Len(calls) :
       /\ calls[k].pass = pass
       /\ calls[k].url.id = entry.id
       /\ ProbeConfirmed(calls[k].outcome)
       /\ Len(TitleOf(calls[k].outcome)) > 0
       /\ entry.name = TitleOf(calls[k].outcome)

EntriesConfirmed ==
  /\ \A k \in 1..Len(validFolders) : CreatedFrom("A", validFolders[k])
  /\ \A k \in 1..Len(detectedFiles) : CreatedFrom("A", detectedFiles[k])
  /\ \A k \in 1..Len(validFiles) : CreatedFrom("B", validFiles[k])
  /\ Returned =>
       \A k \in 1..Len(Listing) :
         CreatedFrom("A", Listing[k]) \/ CreatedFrom("B", Listing[k])

IsPrefix(s, t) == Len(s) <= Len(t) /\ SubSeq(t, 1, Len(s)) = s

\* a step only appends to the arrays of entries, and the listing returned is
\* the entries as they were created
EntriesKept ==
  /\ IsPrefix(validFolders, validFolders')
  /\ IsPrefix(detectedFiles, detectedFiles')
  /\ IsPrefix(validFiles, validFiles')
  /\ (result' # <<>> /\ pc' = "done" /\ blockResult' # <<>>) =>
        result'[1].files = validFolders \o detectedFiles \o validFiles

\* ------------------------------------------------------------------------
\* C21: every entry, in the arrays of the passes and in the returned listing,
\* was created from a probe of its own identifier (a candidate of the block
\* or the tail) that answered 2xx with a non-empty parsed title, is named by
\* that title, and is never changed after it was created.
\* ------------------------------------------------------------------------
C21_EntriesConfirmedAndKept == []EntriesConfirmed /\ [][EntriesKept]_vars

\* a listing with an entry created in Pass A and one created in Pass B
C21_Witness ==
  /\ pc = "done"
  /\ Len(Listing) = 2
  /\ CreatedFrom("A", Listing[1])
  /\ ~CreatedFrom("B", Listing[1])
  /\ CreatedFrom("B", Listing[2])

\* ------------------------------------------------------------------------
\* The pipeline on pages whose window['_DRIVE_ivd'] content pairs names with
\* the folder type, with other application/vnd types and with other types
\* ------------------------------------------------------------------------

MaxIvdFields == 2

FolderType == <<VND_PREFIX, ".google-apps.folder">>

DocumentType == <<VND_PREFIX, ".google-apps.document">>

SheetType == <<VND_PREFIX, ".openxmlformats-officedocument.spreadsheetml.sheet">>

PdfType == <<"application/", "pdf">>

IvdFields ==
  {[name |-> NamePhotos, mime |-> FolderType],
   [name |-> NamePhotos, mime |-> DocumentType],
   [name |-> NameArchive, mime |-> SheetType],
   [name |-> NameReport, mime |-> PdfType]}

InitIndex ==
  /\ upstream \in {StringPage(<<ivd>>, <<MarkerTok, DataIdTok(Id1), EndTok>>) :
                     ivd \in SeqsUpTo(IvdFields, MaxIvdFields)}
  /\ pc = "fetch"
  /\ status = 0
  /\ html = NoData
  /\ folderNamesFromRawResponse = {}
  /\ blockResult = <<>>
  /\ allCandidateIdsArray = <<>>
  /\ idx = 1
  /\ validFolders = <<>>
  /\ invalidIds = <<>>
  /\ detectedFiles = <<>>
  /\ fileIds = <<>>
  /\ validFiles = <<>>
  /\ result = <<>>
  /\ error = "none"
  /\ calls = <<>>
  /\ SideIdle

SpecIndex == InitIndex /\ [][Next]_vars

\* the names the content pairs with a type of the given set
NamesTagged(content, types) ==
  {folderNameOf(content[k].name) :
     k \in {m \in 1..Len(content) : content[m].mime \in types}}

IndexBuilt == pc \notin {"fetch", "parse"} /\ html.kind = "string" /\ html.ivd # <<>>

\* ------------------------------------------------------------------------
\* C22: every name of the folder-name index is a name the _DRIVE_ivd content
\* pairs with the folder media type; a name paired only with another type
\* (another application/vnd type included) is not in the index.
\* ------------------------------------------------------------------------
C22_IndexHoldsOnlyFolderNames ==
  IndexBuilt =>
     folderNamesFromRawResponse \subseteq NamesTagged(html.ivd[1], {FolderType})

\* What does hold: the index is the names paired with a type that starts
\* with application/vnd, whatever follows.
IndexHoldsVndNames ==
  IndexBuilt =>
     folderNamesFromRawResponse =
       NamesTagged(html.ivd[1], {FolderType, DocumentType, SheetType}) \ {<<>>}

\* ------------------------------------------------------------------------
\* One request from its arrival at POST /extract to its response, with the
\* timers of axios: the route of SpecRoute in front of the run of Spec
\* ------------------------------------------------------------------------

FolderLink ==
  HttpsScheme \o HostDrive
    \o <<"/", "d", "r", "i", "v", "e", "/", "f", "o", "l", "d", "e", "r", "s", "/">> \o RootId

FileLink ==
  HttpsScheme \o HostDrive
    \o <<"/", "f", "i", "l", "e", "/", "d", "/">> \o FileIdFive \o <<"/", "v", "i", "e", "w">>

\* the route is inside `await scrapePublicFolder(folderId)`
Scraping == ret # <<>> /\ ret[1].stage = "scraping"

\* the folder pages of the upstream: not a string, without a block, with a
\* block without identifiers, with one and with two identifiers
RequestPages ==
  {NullData, ObjectData}
    \cup {StringPage(ivd, body) :
            ivd \in IvdOptions,
            body \in {<<TextTok>>, <<MarkerTok, EndTok>>,
                      <<MarkerTok, DataIdTok(Id1), EndTok>>,
                      <<MarkerTok, DataIdTok(Id1), EndTok, DataIdTok(Id2)>>}}

\* The request as POST /extract leaves it at its first await (what PostExtract
\* of SpecRoute computes): answered with 400, waiting for the single-file
\* page, or about to run scrapePublicFolder on the folder page of the upstream.
InitRequest ==
  /\ arg \in {<<[body |-> body, route |-> route, definition |-> "second"]>> :
                body \in {<<>>, <<FolderLink>>, <<FileLink>>},
                route \in {"plain", "validating"}}
  /\ ret = <<postExtract(arg[1].body, arg[1].route, arg[1].definition)>>
  /\ upstream \in IF Scraping THEN RequestPages ELSE {NullData}
  /\ pc = "fetch"
  /\ status = 0
  /\ html = NoData
  /\ folderNamesFromRawResponse = {}
  /\ blockResult = <<>>
  /\ allCandidateIdsArray = <<>>
  /\ idx = 1
  /\ validFolders = <<>>
  /\ invalidIds = <<>>
  /\ detectedFiles = <<>>
  /\ fileIds = <<>>
  /\ validFiles = <<>>
  /\ result = <<>>
  /\ error = "none"
  /\ calls = <<>>
  /\ answers = <<>>
  /\ runs = <<>>

\* one step of scrapePublicFolder on behalf of the route
ScrapeStep == Scraping /\ Next

\* scrapePublicFolder has returned or thrown: the route answers
ScrapeSettled ==
  /\ Scraping
  /\ pc \in {"done", "failed"}
  /\ ret' = <<scrapeResponse(ret[1].fetched,
                             [error |-> error,
                              result |-> IF result = <<>> THEN parseFailureResult
                                         ELSE result[1]])>>
  /\ UNCHANGED <<mainVars, answers, runs, arg>>

NextRequest == SingleFileAnswered \/ ScrapeStep \/ ScrapeSettled

\* the call completed in this step ended as a rejected promise, which is how a
\* call ends whose `timeout` has run out
TimedOut == calls' # calls /\ calls'[Len(calls')].outcome = Threw

Stages == {"fetch", "parse", "passA", "passB", "done", "failed"}

\* scrapePublicFolder leaves the position it is at: the code between two
\* awaits has run, or the call it awaited has ended. Every disjunct of Next
\* changes pc or idx, and no other step of NextRequest does.
RunAdvances ==
  /\ Scraping
  /\ pc \notin {"done", "failed"}
  /\ pc' \in Stages
  /\ idx' \in {1, idx + 1}

\* The code between two awaits always runs, and each axios.get of
\* scrapePublicFolder, verifyFolderIds and verifyFileIds carries a `timeout`
\* option, so the call ends, answered or not, and the run moves on. Nothing
\* makes the upstream answer, and axios.get in handleSingleFileLink carries no
\* timeout: SingleFileAnswered has no fairness condition.
RequestFairness == WF_<<pc, idx>>(RunAdvances) /\ WF_vars(ScrapeSettled)

SpecRequest == InitRequest /\ [][NextRequest]_vars /\ RequestFairness

Responded == ret # <<>> /\ ret[1].stage = "responded"

\* a probe that ended without an answer: its identifier is recorded as not
\* confirmed, no entry is made and the loop goes on with the next identifier
UnansweredProbeStep ==
  (TimedOut /\ pc \in {"passA", "passB"}) =>
     /\ pc' = pc
     /\ idx' = idx + 1
     /\ error' = error
     /\ validFolders' = validFolders
     /\ detectedFiles' = detectedFiles
     /\ validFiles' = validFiles
     /\ (pc = "passA" => invalidIds' = Append(invalidIds, allCandidateIdsArray[idx]))

\* ------------------------------------------------------------------------
\* C23: every network call carries a timeout, so every request terminates
\* even when the upstream never answers: a folder resolution eventually
\* returns or fails, the single-item path eventually sends a response, and an
\* unanswered probe counts as a failed probe after which the run continues.
\* ------------------------------------------------------------------------
C23_EveryRequestAnswered == <>Responded /\ [][UnansweredProbeStep]_vars

\* What does hold: a request that reached scrapePublicFolder is answered, and
\* so is every request while no single-file request is waiting.
FolderRequestAnswered == Scraping ~> Responded

SingleFileWaiting == ret # <<>> /\ ret[1].stage = "singleFile"

AnsweredUnlessSingleFileWaits == <>(Responded \/ SingleFileWaiting)

UnansweredProbeIsFailedProbe == [][UnansweredProbeStep]_vars

\* ------------------------------------------------------------------------
\* Order of the calls and of the stages of one run
\* ------------------------------------------------------------------------

PassRank(pass) ==
  CASE pass = "primary" -> 1
    [] pass = "A" -> 2
    [] pass = "B" -> 3

StageRank(stage) ==
  CASE stage = "fetch" -> 1
    [] stage = "parse" -> 2
    [] stage = "passA" -> 3
    [] stage = "passB" -> 4
    [] stage \in {"done", "failed"} -> 5

\* the number of calls of a pass that have completed
CallCount(pass) == Len(CallsOf(pass))

\* both passes have run to their end
PassesCompleted == pc = "done" /\ blockResult # <<>>

StagesInOrder ==
  /\ \A i, j \in 1..Len(calls) :
       i < j => PassRank(calls[i].pass) <= PassRank(calls[j].pass)
  /\ CallCount("primary") = (IF pc = "fetch" THEN 0 ELSE 1)
  /\ (folderNamesFromRawResponse # {} \/ blockResult # <<>> \/ allCandidateIdsArray # <<>>)
       => (StageRank(pc) > StageRank("parse") /\ ~calls[1].outcome.threw)
  /\ CallCount("A") = (IF pc = "passA" THEN idx - 1
                     ELSE IF pc = "passB" \/ PassesCompleted
                       THEN Len(allCandidateIdsArray)
                     ELSE 0)
  /\ CallCount("B") = (IF pc = "passB" THEN idx - 1
                     ELSE IF PassesCompleted THEN Len(fileIds)
                     ELSE 0)
  /\ result # <<>> => pc = "done"

\* a step completes at most one call, after every call before it, and never
\* goes back to an earlier stage
OneCallPerStep ==
  /\ Len(calls') <= Len(calls) + 1
  /\ IsPrefix(calls, calls')
  /\ StageRank(pc') >= StageRank(pc)

\* ------------------------------------------------------------------------
\* C24: within one run at most one network call is in flight at any moment
\* and the stages run strictly forward: the primary fetch completes before
\* the membership index and the block are computed, every Pass A probe
\* completes before the first Pass B probe starts, and the listing is
\* assembled only after the last Pass B probe has completed.
\* ------------------------------------------------------------------------
C24_OneCallAtATimeStagesForward == []StagesInOrder /\ [][OneCallPerStep]_vars

C24_Witness ==
  /\ PassesCompleted
  /\ CallCount("A") = 2
  /\ CallCount("B") >= 1
  /\ Len(result[1].files) >= 1

\* ------------------------------------------------------------------------
\* Two runs of scrapePublicFolder interleaved at their await points, each
\* with the page the upstream answers to it
\* ------------------------------------------------------------------------

TwoPagesPages ==
  {StringPage(<<IvdSample>>, <<MarkerTok, DataIdTok(Id1), EndTok, DataIdTok(Id2)>>),
   StringPage(<<>>, <<MarkerTok, DataIdTok(Id2), EndTok>>),
   StringPage(<<>>, <<DataIdTok(Id1), MarkerTok, DataIdTok(Id2)>>)}

InitTwoPages ==
  /\ MainIdle
  /\ answers \in TwoRunAnswers
  /\ runs \in {<<newRun(first), newRun(second)>> :
                 first \in TwoPagesPages, second \in TwoPagesPages}
  /\ arg = <<>>
  /\ ret = <<>>

SpecTwoPages == InitTwoPages /\ [][NextTwoRuns]_vars

\* the run executed alone from r on, every request answered as `answers` says
RECURSIVE runAlone(_)
runAlone(r) == IF RunEnded(r) THEN r ELSE runAlone(runStep(r, answerFor(r)))

\* the identifiers the page of a run holds
PageIds(page) ==
  IF page.kind # "string" THEN {}
  ELSE {page.body[k].v : k \in {m \in 1..Len(page.body) : page.body[m].t = "dataId"}}

\* the names the page of a run pairs with a media type
PageNames(page) ==
  IF page.kind # "string" \/ page.ivd = <<>> THEN {}
  ELSE {folderNameOf(page.ivd[1][k].name) : k \in 1..Len(page.ivd[1])}

SeqToSet(s) == {s[k] : k \in 1..Len(s)}

\* everything a run holds comes from its own page
OwnPageOnly(r) ==
  /\ SeqToSet(r.allCandidateIdsArray) \subseteq PageIds(r.upstream)
  /\ SeqToSet(r.fileIds) \subseteq SeqToSet(r.allCandidateIdsArray)
  /\ r.folderNamesFromRawResponse \subseteq PageNames(r.upstream)
  /\ \A entries \in {r.validFolders, r.detectedFiles, r.validFiles} :
       SeqToSet(IdsOf(entries)) \subseteq SeqToSet(r.allCandidateIdsArray)
  /\ r.result # <<>> =>
       SeqToSet(IdsOf(r.result[1].files)) \subseteq SeqToSet(r.allCandidateIdsArray)

NoDuplicates(s) == \A i, j \in 1..Len(s) : i # j => s[i] # s[j]

FirstPosition(x, s) == CHOOSE k \in 1..Len(s) : s[k] = x /\ \A m \in 1..(k - 1) : s[m] # x

\* s holds the elements of `seen`, each once, in the order of first occurrence
InFirstSeenOrder(s, seen) ==
  /\ NoDuplicates(s)
  /\ SeqToSet(s) = SeqToSet(seen)
  /\ \A i, j \in 1..Len(s) : i < j => FirstPosition(s[i], seen) < FirstPosition(s[j], seen)

\* the fragments parseIdsFromBlock is called with: the block and the tail
BlockFragment == blockResult[1].bigScriptBlock

TailFragment == sliceFrom(html.body, blockResult[1].bigBlockEndIndex)

\* the data-id values of a fragment that have the shape of an identifier
RECURSIVE ShapedValues(_)
ShapedValues(fragment) ==
  IF fragment = <<>> THEN <<>>
  ELSE (IF Head(fragment).t = "dataId" /\ WellFormedId(Head(fragment).v)
          THEN <<Head(fragment).v>> ELSE <<>>) \o ShapedValues(Tail(fragment))

CandidateListInFirstSeenOrder ==
  InFirstSeenOrder(allCandidateIdsArray,
                   ShapedValues(BlockFragment) \o ShapedValues(TailFragment))

\* ------------------------------------------------------------------------
\* C26: parseIdsFromBlock returns each identifier at most once, in first-seen
\* order, for every fragment (also when a data-id value occurs several
\* times), and the candidate list handed to Pass A is the block identifiers
\* in first-seen order followed by the tail identifiers not already seen,
\* without duplicates.
\* ------------------------------------------------------------------------
C26_ExtractorReturnsEachIdOnce ==
  blockResult # <<>> =>
    /\ \A fragment \in {BlockFragment, TailFragment} :
         InFirstSeenOrder(parseIdsFromBlock(fragment), ShapedValues(fragment))
    /\ CandidateListInFirstSeenOrder

\* What does hold: parseIdsFromBlock returns every occurrence, in order, and
\* the Sets of scrapePublicFolder make the candidate list what the claim says.
ExtractorReturnsEveryOccurrence ==
  blockResult # <<>> =>
    /\ \A fragment \in {BlockFragment, TailFragment} :
         parseIdsFromBlock(fragment) = ShapedValues(fragment)
    /\ CandidateListInFirstSeenOrder

\* ------------------------------------------------------------------------
\* The outcome of each candidate in Pass A and in Pass B
\* ------------------------------------------------------------------------

\* Pass A has classified the candidate as ...
ClassA(id, folders, detected, invalid) ==
  {c \in {"Container", "Leaf", "Invalid"} :
     \/ c = "Container" /\ InSeq(id, IdsOf(folders))
     \/ c = "Leaf" /\ InSeq(id, IdsOf(detected))
     \/ c = "Invalid" /\ InSeq(id, invalid)}

\* ... and where the candidate stands when Pass B has dealt with `probed`
FinalStates(id, folders, detected, files, probed) ==
  {c \in {"Container", "LeafA", "LeafB", "Dropped"} :
     \/ c = "Container" /\ InSeq(id, IdsOf(folders))
     \/ c = "LeafA" /\ InSeq(id, IdsOf(detected))
     \/ c = "LeafB" /\ InSeq(id, IdsOf(files))
     \/ c = "Dropped" /\ InSeq(id, probed) /\ ~InSeq(id, IdsOf(files))}

PassAFinished == pc = "passB" \/ PassesCompleted

\* the identifiers Pass B has dealt with
ProbedInPassB(stage, position, ids) ==
  IF stage = "passB" THEN SubSeq(ids, 1, position - 1)
  ELSE IF stage = "done" THEN ids
  ELSE <<>>

CandidatesPartitioned ==
  /\ PassAFinished =>
       /\ \A k \in 1..Len(allCandidateIdsArray) :
            Cardinality(ClassA(allCandidateIdsArray[k], validFolders, detectedFiles,
                               invalidIds)) = 1
       /\ NoDuplicates(IdsOf(validFolders) \o IdsOf(detectedFiles) \o invalidIds)
       /\ Len(validFolders) + Len(detectedFiles) + Len(invalidIds)
            = Cardinality(SeqToSet(allCandidateIdsArray))
  /\ PassesCompleted =>
       /\ \A k \in 1..Len(allCandidateIdsArray) :
            Cardinality(FinalStates(allCandidateIdsArray[k], validFolders, detectedFiles,
                                    validFiles, fileIds)) = 1
       /\ NoDuplicates(IdsOf(validFolders) \o IdsOf(detectedFiles) \o IdsOf(validFiles))

\* a candidate that has an outcome keeps it
ClassificationKept ==
  \A k \in 1..Len(allCandidateIdsArray) :
    LET id == allCandidateIdsArray[k]
        classA == ClassA(id, validFolders, detectedFiles, invalidIds)
        final == FinalStates(id, validFolders, detectedFiles, validFiles,
                             ProbedInPassB(pc, idx, fileIds))
    IN /\ classA # {} => ClassA(id, validFolders', detectedFiles', invalidIds') = classA
       /\ final # {} =>
            FinalStates(id, validFolders', detectedFiles', validFiles',
                        ProbedInPassB(pc', idx', fileIds')) = final

\* ------------------------------------------------------------------------
\* C27: after Pass A every candidate is in exactly one of the outcomes
\* Container, Leaf, Invalid (validFolders, detectedFiles and invalidIds are
\* pairwise disjoint by id and their sizes sum to the number of distinct
\* candidates); after Pass B every candidate is in exactly one final state
\* among Container, Leaf from Pass A, Leaf from Pass B and dropped; and a
\* candidate never changes state once classified.
\* ------------------------------------------------------------------------
C27_CandidatesPartitioned == []CandidatesPartitioned /\ [][ClassificationKept]_vars

\* a run over two candidates has returned: the first is a container, the
\* second was not confirmed in Pass A and is listed by Pass B or dropped
C27_Witness ==
  /\ PassesCompleted
  /\ Len(allCandidateIdsArray) = 2
  /\ FinalStates(allCandidateIdsArray[1], validFolders, detectedFiles, validFiles, fileIds)
       = {"Container"}
  /\ FinalStates(allCandidateIdsArray[2], validFolders, detectedFiles, validFiles, fileIds)
       \in {{"LeafB"}, {"Dropped"}}

\* ------------------------------------------------------------------------
\* What POST /extract answers to each outcome of scrapePublicFolder
\* ------------------------------------------------------------------------

\* the outcome of the run, as scrapePublicFolder hands it to the route
OutcomeClass ==
  IF error = "FolderNotFoundError" THEN "NotFound"
  ELSE IF error = "PublicAccessForbiddenError" THEN "AccessForbidden"
  ELSE IF error # "none" THEN "OtherError"
  ELSE IF Len(result[1].files) > 0 THEN "Listing"
  ELSE IF result[1].isEmptyFolder THEN "Empty"
  ELSE "NotParsed"

\* the same, read from the response alone
ResponseClass(response) ==
  CASE response.status = 404 /\ response.code = "FOLDER_NOT_FOUND" -> "NotFound"
    [] response.status = 403 /\ response.code = "FOLDER_ACCESS_FORBIDDEN" -> "AccessForbidden"
    [] response.status = 500 /\ response.code = "INTERNAL_ERROR" -> "OtherError"
    [] response.status = 200 /\ response.message = <<>> /\ Len(response.files) > 0 -> "Listing"
    [] response.status = 200 /\ response.message = <<EmptyFolderMessage>>
         /\ response.files = <<>> -> "Empty"
    [] response.status = 200 /\ response.message = <<NothingParsedMessage>>
         /\ response.files = <<>> -> "NotParsed"
    [] OTHER -> "none"

\* the route has answered a request for which scrapePublicFolder has run
RespondedAfterScrape == Responded /\ pc \in {"done", "failed"}

OutcomesDistinguishable ==
  /\ EmptyFolderMessage # NothingParsedMessage
  /\ RespondedAfterScrape =>
       /\ ResponseClass(ret[1]) = OutcomeClass
       /\ OutcomeClass = "Listing" => ret[1].files = result[1].files

\* a response is sent when scrapePublicFolder has returned or thrown, not
\* before, and nothing is sent after it
OneResponse ==
  /\ (Scraping /\ ret' # ret) => (pc \in {"done", "failed"} /\ Responded')
  /\ Responded => ret' = ret

\* ------------------------------------------------------------------------
\* C28: the /extract route sends exactly one response per request and keeps
\* the outcomes of the pipeline distinguishable: NotFound gives 404 with
\* FOLDER_NOT_FOUND, AccessForbidden 403 with FOLDER_ACCESS_FORBIDDEN, any
\* other thrown error 500 with INTERNAL_ERROR, a listing with entries 200 with
\* the files and no message, a result without entries and isEmptyFolder true
\* 200 with the 'appears to be empty' message, and one with isEmptyFolder
\* false 200 with the different 'no files could be parsed' message.
\* ------------------------------------------------------------------------
C28_OneResponseOutcomesDistinguishable ==
  /\ []OutcomesDistinguishable
  /\ [][OneResponse]_vars
  /\ (Scraping ~> Responded)

\* the page had no block: answered with 200, no files and the 'no files
\* could be parsed' message
C28_Witness ==
  /\ RespondedAfterScrape
  /\ OutcomeClass = "NotParsed"
  /\ ret[1].status = 200
  /\ ret[1].message = <<NothingParsedMessage>>

====
